---- MODULE Spec2Model ----
(***************************************************************************)
(* A model of go-wappalyzer: the pattern interpreter, the signature         *)
(* compiler, the channel matchers, the implication closure, the engine      *)
(* construction (New / loadDataOnce) and the result views.                  *)
(*                                                                          *)
(* Go strings are TLA+ strings; a JSON document is the value it encodes     *)
(* (JStr, JNum, JArr, JObj); a Go map is a function; a Go slice a sequence. *)
(***************************************************************************)
EXTENDS Integers, Sequences, FiniteSets, TLC

(***************************************************************************)
(* Strings (package strings of the Go standard library, as the code uses   *)
(* it).                                                                     *)
(***************************************************************************)
UpperAlpha == "ABCDEFGHIJKLMNOPQRSTUVWXYZ"

LowerAlpha == "abcdefghijklmnopqrstuvwxyz"

Digits == "0123456789"

CharAt(s, i) == SubSeq(s, i, i)

LowerOf == [c \in {CharAt(UpperAlpha, i) : i \in 1..26} |->
              CharAt(LowerAlpha, CHOOSE i \in 1..26 : CharAt(UpperAlpha, i) = c)]

ToLowerChar(c) == IF c \in DOMAIN LowerOf THEN LowerOf[c] ELSE c

RECURSIVE ToLower(_)
ToLower(s) == IF s = "" THEN "" ELSE ToLowerChar(Head(s)) \o ToLower(Tail(s))

HasPrefix(s, p) == Len(s) >= Len(p) /\ SubSeq(s, 1, Len(p)) = p

HasSuffix(s, p) == Len(s) >= Len(p) /\ SubSeq(s, Len(s) - Len(p) + 1, Len(s)) = p

\* sub occurs in s at position i
At(s, i, sub) == i >= 1 /\ i + Len(sub) - 1 <= Len(s) /\ SubSeq(s, i, i + Len(sub) - 1) = sub

\* strings.Contains
Contains(s, sub) == \E i \in 0..(Len(s) - Len(sub)) : SubSeq(s, i + 1, i + Len(sub)) = sub

\* strings.Index, 1-based; 0 when sub does not occur (Go: 0-based, -1)
Index(s, sub) ==
    IF Contains(s, sub)
    THEN 1 + CHOOSE i \in 0..(Len(s) - Len(sub)) :
                 /\ SubSeq(s, i + 1, i + Len(sub)) = sub
                 /\ \A j \in 0..(i - 1) : SubSeq(s, j + 1, j + Len(sub)) # sub
    ELSE 0

IsSpace(c) == c \in {" ", "\t", "\n", "\r"}

RECURSIVE TrimLeft(_)
TrimLeft(s) == IF s # "" /\ IsSpace(Head(s)) THEN TrimLeft(Tail(s)) ELSE s

RECURSIVE TrimRight(_)
TrimRight(s) ==
    IF s # "" /\ IsSpace(CharAt(s, Len(s))) THEN TrimRight(SubSeq(s, 1, Len(s) - 1)) ELSE s

\* strings.TrimSpace
TrimSpace(s) == TrimRight(TrimLeft(s))

\* strings.Split(s, sep) for a non-empty sep
RECURSIVE Split(_, _)
Split(s, sep) ==
    LET i == Index(s, sep)
    IN  IF i = 0 THEN <<s>>
        ELSE <<SubSeq(s, 1, i - 1)>> \o Split(SubSeq(s, i + Len(sep), Len(s)), sep)

\* strings.SplitN(s, sep, 2)
SplitN2(s, sep) ==
    LET i == Index(s, sep)
    IN  IF i = 0 THEN <<s>>
        ELSE <<SubSeq(s, 1, i - 1), SubSeq(s, i + Len(sep), Len(s))>>

IsDigit(c) == c # "" /\ Contains(Digits, c)

DigitVal(c) == Index(Digits, c) - 1

AllDigits(s) == s # "" /\ \A i \in 1..Len(s) : IsDigit(CharAt(s, i))

RECURSIVE DecimalValue(_)
DecimalValue(s) ==
    IF s = "" THEN 0
    ELSE 10 * DecimalValue(SubSeq(s, 1, Len(s) - 1)) + DigitVal(CharAt(s, Len(s)))

\* strconv.Atoi: [ok, n]
Atoi(s) ==
    LET signed == s # "" /\ Head(s) \in {"+", "-"}
        body   == IF signed THEN Tail(s) ELSE s
    IN  IF AllDigits(body)
        THEN [ok |-> TRUE,
              n  |-> IF signed /\ Head(s) = "-" THEN 0 - DecimalValue(body)
                     ELSE DecimalValue(body)]
        ELSE [ok |-> FALSE, n |-> 0]

\* the elements of a sequence
Range(f) == {f[x] : x \in DOMAIN f}

\* every ordering of a finite set, as sequences (Go's map iteration order is
\* unspecified: a loop over a map may visit the keys in any of these orders)
Orders(S) ==
    {q \in [1..Cardinality(S) -> S] : \A i, j \in 1..Cardinality(S) : q[i] = q[j] => i = j}

(***************************************************************************)
(* Regular expressions (package regexp), for the part of the syntax the    *)
(* model's patterns use: an optional leading flag group (?i) or (?-i), then *)
(* ^, $, and atoms (a literal character, ".", \d, \s, \w, an escaped        *)
(* punctuation character), each optionally followed by one of * + ?.       *)
(* regexp.Compile rejects a repetition operator without an argument, a      *)
(* nested repetition, a trailing backslash, an escaped letter that is no    *)
(* class, and an unclosed "(" or "[" or a stray ")".  Groups, classes in    *)
(* brackets, alternation and counted repetition are outside the model: no   *)
(* pattern of the model's corpora uses them.                                *)
(***************************************************************************)
IsAlnum(c) == c # "" /\ (Contains(UpperAlpha, c) \/ Contains(LowerAlpha, c) \/ Contains(Digits, c))

IsWordChar(c) == IsAlnum(c) \/ c = "_"

RegexError == [ok |-> FALSE, toks |-> <<>>]

RECURSIVE RegexTokens(_, _)
\* the atoms of a regex body b, appended to acc; a repetition operator marks
\* the atom before it
RegexTokens(b, acc) ==
    IF b = "" THEN [ok |-> TRUE, toks |-> acc]
    ELSE
    LET c    == Head(b)
        rest == Tail(b)
        last == Len(acc)
    IN  CASE c \in {"*", "+", "?"} ->
                 IF last = 0 \/ acc[last].q # "" \/ acc[last].kind \in {"bol", "eol"}
                 THEN RegexError
                 ELSE RegexTokens(rest, [acc EXCEPT ![last].q = c])
          [] c \in {"(", ")", "[", "|", "{"} -> RegexError
          [] c = "^" -> RegexTokens(rest, Append(acc, [kind |-> "bol", c |-> "", q |-> ""]))
          [] c = "$" -> RegexTokens(rest, Append(acc, [kind |-> "eol", c |-> "", q |-> ""]))
          [] c = "." -> RegexTokens(rest, Append(acc, [kind |-> "any", c |-> "", q |-> ""]))
          [] c = "\\" ->
                 IF rest = "" THEN RegexError
                 ELSE LET e == Head(rest)
                      IN  CASE e = "d" -> RegexTokens(Tail(rest), Append(acc, [kind |-> "digit", c |-> "", q |-> ""]))
                            [] e = "s" -> RegexTokens(Tail(rest), Append(acc, [kind |-> "space", c |-> "", q |-> ""]))
                            [] e = "w" -> RegexTokens(Tail(rest), Append(acc, [kind |-> "word", c |-> "", q |-> ""]))
                            [] IsAlnum(e) -> RegexError
                            [] OTHER -> RegexTokens(Tail(rest), Append(acc, [kind |-> "char", c |-> e, q |-> ""]))
          [] OTHER -> RegexTokens(rest, Append(acc, [kind |-> "char", c |-> c, q |-> ""]))

\* the flag group a normalized pattern starts with, and the body after it
RegexFlags(np) ==
    IF HasPrefix(np, "(?i)") THEN [ci |-> TRUE, body |-> SubSeq(np, 5, Len(np))]
    ELSE IF HasPrefix(np, "(?-i)") THEN [ci |-> FALSE, body |-> SubSeq(np, 6, Len(np))]
    ELSE [ci |-> FALSE, body |-> np]

\* regexp.Compile(np) succeeds
RegexCompiles(np) == RegexTokens(RegexFlags(np).body, <<>>).ok

TokMatches(tok, ch, ci) ==
    CASE tok.kind = "any"   -> ch # "\n"
      [] tok.kind = "digit" -> IsDigit(ch)
      [] tok.kind = "space" -> IsSpace(ch)
      [] tok.kind = "word"  -> IsWordChar(ch)
      [] OTHER -> IF ci THEN ToLowerChar(ch) = ToLowerChar(tok.c) ELSE ch = tok.c

RECURSIVE MatchAt(_, _, _, _)
\* the tokens match a substring of text that starts at position pos
MatchAt(toks, text, pos, ci) ==
    IF toks = <<>> THEN TRUE
    ELSE
    LET t    == Head(toks)
        rest == Tail(toks)
        here == pos <= Len(text) /\ TokMatches(t, CharAt(text, pos), ci)
    IN  CASE t.kind = "bol" -> pos = 1 /\ MatchAt(rest, text, pos, ci)
          [] t.kind = "eol" -> pos = Len(text) + 1 /\ MatchAt(rest, text, pos, ci)
          [] t.q = ""  -> here /\ MatchAt(rest, text, pos + 1, ci)
          [] t.q = "?" -> \/ (here /\ MatchAt(rest, text, pos + 1, ci))
                          \/ MatchAt(rest, text, pos, ci)
          [] OTHER ->
                 \E k \in (IF t.q = "+" THEN 1 ELSE 0)..(Len(text) + 1 - pos) :
                     /\ \A i \in pos..(pos + k - 1) : TokMatches(t, CharAt(text, i), ci)
                     /\ MatchAt(rest, text, pos + k, ci)

\* (*regexp.Regexp).MatchString of the regex compiled from np
MatchString(np, text) ==
    LET f == RegexFlags(np)
        r == RegexTokens(f.body, <<>>)
    IN  r.ok /\ \E pos \in 1..(Len(text) + 1) : MatchAt(r.toks, text, pos, f.ci)

(***************************************************************************)
(* internal/parser: regex.go and pattern.go                                *)
(***************************************************************************)
\* the slash-delimited form /.../
SlashWrapped(pattern) ==
    Len(pattern) > 2 /\ Head(pattern) = "/" /\ CharAt(pattern, Len(pattern)) = "/"

normalizePattern(pattern) ==
    LET p1 == IF SlashWrapped(pattern) THEN SubSeq(pattern, 2, Len(pattern) - 1) ELSE pattern
    IN  IF ~HasPrefix(p1, "(?i)") /\ ~Contains(p1, "(?-i)") THEN "(?i)" \o p1 ELSE p1

\* CompileRegex with the process-wide regexCache (a map from the pattern given
\* to the source of the regex compiled for it): [ok, re, cache]
CompileRegex(pattern, cache) ==
    IF pattern \in DOMAIN cache
    THEN [ok |-> TRUE, re |-> cache[pattern], cache |-> cache]
    ELSE LET normalizedPattern == normalizePattern(pattern)
         IN  IF RegexCompiles(normalizedPattern)
             THEN [ok |-> TRUE, re |-> normalizedPattern,
                   cache |-> cache @@ (pattern :> normalizedPattern)]
             ELSE [ok |-> FALSE, re |-> "", cache |-> cache]

specialChars == {"\\", "^", "$", ".", "|", "?", "*", "+", "(", "[", "{"}

isRegexPattern(pattern) ==
    \/ \E char \in specialChars : Contains(pattern, char)
    \/ SlashWrapped(pattern)

isCaseSensitive(pattern) == Contains(pattern, "(?-i)") /\ ~Contains(pattern, "(?i)")

\* the position after the longest run of digits of s that starts at i
RECURSIVE DigitRunEnd(_, _)
DigitRunEnd(s, i) ==
    IF i <= Len(s) /\ IsDigit(CharAt(s, i)) THEN DigitRunEnd(s, i + 1) ELSE i

\* the position after the longest (\.\d+)* that starts at e
RECURSIVE DottedEnd(_, _)
DottedEnd(s, e) ==
    IF e <= Len(s) /\ CharAt(s, e) = "." /\ DigitRunEnd(s, e + 1) > e + 1
    THEN DottedEnd(s, DigitRunEnd(s, e + 1))
    ELSE e

\* the match of \d+(?:\.\d+)+ that starts at i, "" when there is none
VersionNumberAt(s, i) ==
    LET e1 == DigitRunEnd(s, i)
        e2 == DottedEnd(s, e1)
    IN  IF e1 > i /\ e2 > e1 THEN SubSeq(s, i, e2 - 1) ELSE ""

\* the least element of a non-empty set of numbers
Least(S) == CHOOSE i \in S : \A j \in S : i <= j

\* versionPatterns[0]: \;version:(.+)
VersionPattern0(s) ==
    LET lead == "\\;version:"
        at   == {i \in 1..Len(s) : HasPrefix(SubSeq(s, i, Len(s)), lead)
                                    /\ i + Len(lead) <= Len(s)
                                    /\ CharAt(s, i + Len(lead)) # "\n"}
    IN  IF at = {} THEN ""
        ELSE LET from == Least(at) + Len(lead)
                 nl   == Index(SubSeq(s, from, Len(s)), "\n")
             IN  IF nl = 0 THEN SubSeq(s, from, Len(s)) ELSE SubSeq(s, from, from + nl - 2)

\* versionPatterns[1]: [^\d](\d+(?:\.\d+)+)
VersionPattern1(s) ==
    LET at == {i \in 1..Len(s) : ~IsDigit(CharAt(s, i)) /\ VersionNumberAt(s, i + 1) # ""}
    IN  IF at = {} THEN "" ELSE VersionNumberAt(s, Least(at) + 1)

WordBoundary(s, i) ==
    (i > 1 /\ IsWordChar(CharAt(s, i - 1))) # (i <= Len(s) /\ IsWordChar(CharAt(s, i)))

\* versionPatterns[2]: \bv?(\d+(?:\.\d+)+)
VersionPattern2(s) ==
    LET numAt(i) == IF i <= Len(s) /\ CharAt(s, i) = "v" /\ VersionNumberAt(s, i + 1) # ""
                    THEN VersionNumberAt(s, i + 1)
                    ELSE VersionNumberAt(s, i)
        at == {i \in 1..Len(s) : WordBoundary(s, i) /\ numAt(i) # ""}
    IN  IF at = {} THEN "" ELSE numAt(Least(at))

RECURSIVE RunEnd(_, _, _)
\* the position after the longest run, from i, of characters of the set cs
RunEnd(s, i, cs) ==
    IF i <= Len(s) /\ CharAt(s, i) \in cs THEN RunEnd(s, i + 1, cs) ELSE i

\* versionPatterns[3]: version[:/\s]*([\d.]+)
VersionPattern3(s) ==
    LET lead   == "version"
        dotnum == {CharAt(Digits, k) : k \in 1..10} \cup {"."}
        from(i) == RunEnd(s, i + Len(lead), {":", "/", " ", "\t", "\n", "\r"})
        at == {i \in 1..Len(s) : HasPrefix(SubSeq(s, i, Len(s)), lead)
                                  /\ RunEnd(s, from(i), dotnum) > from(i)}
    IN  IF at = {} THEN ""
        ELSE SubSeq(s, from(Least(at)), RunEnd(s, from(Least(at)), dotnum) - 1)

\* the loop over versionPatterns: the capture of the first pattern that matches
versionPatterns(s) ==
    CASE VersionPattern0(s) # "" -> VersionPattern0(s)
      [] VersionPattern1(s) # "" -> VersionPattern1(s)
      [] VersionPattern2(s) # "" -> VersionPattern2(s)
      [] OTHER -> VersionPattern3(s)

\* fmt.Sscanf(s, "%d", &confidence): [ok, n]
ScanInt(s) ==
    LET t      == TrimLeft(s)
        signed == t # "" /\ Head(t) \in {"+", "-"}
        from   == IF signed THEN 2 ELSE 1
        e      == DigitRunEnd(t, from)
    IN  IF e > from
        THEN [ok |-> TRUE,
              n  |-> IF signed /\ Head(t) = "-" THEN 0 - DecimalValue(SubSeq(t, from, e - 1))
                     ELSE DecimalValue(SubSeq(t, from, e - 1))]
        ELSE [ok |-> FALSE, n |-> 0]

RECURSIVE DirectiveInfo(_)
\* the loop of extractVersionInfo over parts[1:]: the first part that is a
\* version or a confidence directive decides; found = FALSE when none is
DirectiveInfo(parts) ==
    IF parts = <<>> THEN [found |-> FALSE, version |-> "", confidence |-> 100]
    ELSE LET part == Head(parts)
         IN  IF HasPrefix(part, "version:")
             THEN [found |-> TRUE, version |-> SubSeq(part, 9, Len(part)), confidence |-> 80]
             ELSE IF HasPrefix(part, "confidence:")
             THEN LET sc == ScanInt(SubSeq(part, 12, Len(part)))
                  IN  [found |-> TRUE, version |-> "",
                       confidence |-> IF sc.ok THEN sc.n ELSE 100]
             ELSE DirectiveInfo(Tail(parts))

extractVersionInfo(pattern) ==
    LET parts == Split(pattern, "\\;")
        d     == DirectiveInfo(Tail(parts))
    IN  IF Len(parts) > 1 /\ d.found THEN [version |-> d.version, confidence |-> d.confidence]
        ELSE IF versionPatterns(pattern) # ""
        THEN [version |-> versionPatterns(pattern), confidence |-> 70]
        ELSE [version |-> "", confidence |-> 100]

cleanPatternString(pattern) ==
    LET index == Index(pattern, "\\;")     \* 1-based: Go's index > 0 is index > 1 here
        p1    == IF index > 1 THEN SubSeq(pattern, 1, index - 1) ELSE pattern
    IN  IF SlashWrapped(p1) THEN SubSeq(p1, 2, Len(p1) - 1) ELSE p1

\* ParsePattern: [ok, p, cache]; p is the models.ParsedPattern
ParsePattern(pattern, cache) ==
    LET Parsed(literal, info, cleanedPattern, rx) ==
            LET parsed == [Pattern         |-> IF literal THEN pattern ELSE cleanedPattern,
                           IsLiteral       |-> literal,
                           IsCaseSensitive |-> isCaseSensitive(pattern),
                           Version         |-> info.version,
                           Confidence      |-> IF info.version # "" THEN info.confidence ELSE 100]
            IN  [ok |-> literal \/ rx.ok, p |-> parsed,
                 cache |-> IF literal THEN cache ELSE rx.cache]
        Cleaned(literal, info, cleanedPattern) ==
            Parsed(literal, info, cleanedPattern, CompileRegex(cleanedPattern, cache))
    IN  Cleaned(~isRegexPattern(pattern), extractVersionInfo(pattern),
                cleanPatternString(pattern))

\* EvaluatePattern: [matched, version].  The regex comes from CompileRegex, which
\* on a cache miss compiles the pattern again and caches it: EvaluateCaches
\* below is that insertion.  A cached regex is the one compiled from its key,
\* so the verdict does not depend on what the cache holds.
EvaluatePattern(pattern, target, cache) ==
    IF pattern.IsLiteral
    THEN IF pattern.IsCaseSensitive
         THEN [matched |-> Contains(target, pattern.Pattern), version |-> pattern.Version]
         ELSE [matched |-> Contains(ToLower(target), ToLower(pattern.Pattern)),
               version |-> pattern.Version]
    ELSE LET rx == CompileRegex(pattern.Pattern, cache)
         IN  IF ~rx.ok THEN [matched |-> FALSE, version |-> ""]
             ELSE IF MatchString(rx.re, target)
             THEN [matched |-> TRUE,
                   version |-> IF pattern.Version # "" THEN pattern.Version
                               ELSE versionPatterns(target)]
             ELSE [matched |-> FALSE, version |-> ""]

\* the regexCache after EvaluatePattern(pattern, _)
EvaluateCaches(pattern, cache) ==
    IF pattern.IsLiteral THEN cache ELSE CompileRegex(pattern.Pattern, cache).cache

(***************************************************************************)
(* JSON documents and encoding/json.  A document is the value it encodes.  *)
(***************************************************************************)
JStr(s) == [t |-> "string", v |-> s]

JNum(n) == [t |-> "number", v |-> n]

JArr(a) == [t |-> "array", v |-> a]

JObj(o) == [t |-> "object", v |-> o]

JNull == [t |-> "null", v |-> <<>>]

\* the empty Go map (a nil map reads the same)
EmptyMap == <<>>

\* the member of a JSON object, JNull when absent (Unmarshal leaves the field
\* at its zero value in both cases)
Member(obj, key) == IF key \in DOMAIN obj.v THEN obj.v[key] ELSE JNull

\* json.Unmarshal into a Go string
DecodeString(j) ==
    CASE j.t = "null"   -> [ok |-> TRUE, val |-> ""]
      [] j.t = "string" -> [ok |-> TRUE, val |-> j.v]
      [] OTHER          -> [ok |-> FALSE, val |-> ""]

\* json.Unmarshal into []int
DecodeIntList(j) ==
    CASE j.t = "null" -> [ok |-> TRUE, val |-> <<>>]
      [] j.t = "array" /\ \A i \in DOMAIN j.v : j.v[i].t \in {"number", "null"} ->
             [ok |-> TRUE,
              val |-> [i \in DOMAIN j.v |-> IF j.v[i].t = "number" THEN j.v[i].v ELSE 0]]
      [] OTHER -> [ok |-> FALSE, val |-> <<>>]

\* json.Unmarshal into map[string]string
DecodeStringMap(j) ==
    CASE j.t = "null" -> [ok |-> TRUE, val |-> EmptyMap]
      [] j.t = "object" /\ \A k \in DOMAIN j.v : j.v[k].t \in {"string", "null"} ->
             [ok |-> TRUE,
              val |-> [k \in DOMAIN j.v |-> IF j.v[k].t = "string" THEN j.v[k].v ELSE ""]]
      [] OTHER -> [ok |-> FALSE, val |-> EmptyMap]

\* json.Unmarshal into map[string]interface{}
DecodeAnyMap(j) ==
    CASE j.t = "null"   -> [ok |-> TRUE, val |-> EmptyMap]
      [] j.t = "object" -> [ok |-> TRUE, val |-> j.v]
      [] OTHER          -> [ok |-> FALSE, val |-> EmptyMap]

\* json.Unmarshal of one technology entry into models.Fingerprint: [ok, app]
UnmarshalFingerprint(raw) ==
    LET Cats        == DecodeIntList(Member(raw, "cats"))
        Description == DecodeString(Member(raw, "description"))
        Icon        == DecodeString(Member(raw, "icon"))
        Website     == DecodeString(Member(raw, "website"))
        CPE         == DecodeString(Member(raw, "cpe"))
        Cookies     == DecodeStringMap(Member(raw, "cookies"))
        JS          == DecodeStringMap(Member(raw, "js"))
        Headers     == DecodeStringMap(Member(raw, "headers"))
        Meta        == DecodeAnyMap(Member(raw, "meta"))
        Name        == DecodeString(Member(raw, "name"))
    IN  [ok  |-> /\ raw.t \in {"object", "null"}
                 /\ Cats.ok /\ Description.ok /\ Icon.ok /\ Website.ok /\ CPE.ok
                 /\ Cookies.ok /\ JS.ok /\ Headers.ok /\ Meta.ok /\ Name.ok,
         app |-> [Cats |-> Cats.val, Description |-> Description.val, Icon |-> Icon.val,
                  Website |-> Website.val, CPE |-> CPE.val, Cookies |-> Cookies.val,
                  JS |-> JS.val, Headers |-> Headers.val,
                  HTML |-> Member(raw, "html"), Script |-> Member(raw, "scripts"),
                  ScriptSrc |-> Member(raw, "scriptSrc"), Meta |-> Meta.val,
                  Implies |-> Member(raw, "implies"), Name |-> Name.val]]

\* json decoding of a whole document into models.Fingerprints ({"apps": {...}}):
\* [ok, Apps].  (A null entry under "apps" would decode to a nil *Fingerprint;
\* the model's documents have none.)
DecodeFingerprints(doc) ==
    LET apps == IF doc.t = "object" THEN Member(doc, "apps") ELSE JNull
    IN  CASE doc.t # "object" -> [ok |-> FALSE, Apps |-> EmptyMap]
          [] apps.t = "null"  -> [ok |-> TRUE, Apps |-> EmptyMap]
          [] apps.t = "object" /\ \A n \in DOMAIN apps.v : UnmarshalFingerprint(apps.v[n]).ok ->
                 [ok |-> TRUE, Apps |-> [n \in DOMAIN apps.v |-> UnmarshalFingerprint(apps.v[n]).app]]
          [] OTHER -> [ok |-> FALSE, Apps |-> EmptyMap]

\* json.Marshal of a models.Fingerprint
MarshalFingerprint(app) ==
    JObj([f \in {"cats", "description", "icon", "website", "cpe", "cookies", "js",
                 "headers", "html", "scripts", "scriptSrc", "meta", "implies", "name"} |->
            CASE f = "cats"        -> JArr([i \in DOMAIN app.Cats |-> JNum(app.Cats[i])])
              [] f = "description" -> JStr(app.Description)
              [] f = "icon"        -> JStr(app.Icon)
              [] f = "website"     -> JStr(app.Website)
              [] f = "cpe"         -> JStr(app.CPE)
              [] f = "cookies"     -> JObj([k \in DOMAIN app.Cookies |-> JStr(app.Cookies[k])])
              [] f = "js"          -> JObj([k \in DOMAIN app.JS |-> JStr(app.JS[k])])
              [] f = "headers"     -> JObj([k \in DOMAIN app.Headers |-> JStr(app.Headers[k])])
              [] f = "html"        -> app.HTML
              [] f = "scripts"     -> app.Script
              [] f = "scriptSrc"   -> app.ScriptSrc
              [] f = "meta"        -> JObj(app.Meta)
              [] f = "implies"     -> app.Implies
              [] f = "name"        -> JStr(app.Name)])

(***************************************************************************)
(* internal/parser/compiler.go                                             *)
(***************************************************************************)
\* the strings among the items of a decoded JSON array, in order
RECURSIVE StringItems(_)
StringItems(a) ==
    IF a = <<>> THEN <<>>
    ELSE (IF Head(a).t = "string" THEN <<Head(a).v>> ELSE <<>>) \o StringItems(Tail(a))

\* extractPatternList on an interface{} decoded from JSON.  A decoded object is
\* a map[string]interface{}: reflect's MapIndex yields values of Kind
\* Interface, never String, so the map case collects nothing.
extractPatternList(data) ==
    CASE data.t = "string" -> <<data.v>>
      [] data.t = "array"  -> StringItems(data.v)
      [] OTHER             -> <<>>

processImpliesList(implies) ==
    CASE implies.t = "string" -> <<implies.v>>
      [] implies.t = "array"  -> StringItems(implies.v)
      [] OTHER                -> <<>>

\* A faulty pattern loop that gives up the rest of the list at the first
\* pattern that does not parse.
RECURSIVE StopAtFailure(_)
StopAtFailure(patterns) ==
    IF patterns = <<>> \/ ~ParsePattern(Head(patterns), <<>>).ok THEN <<>>
    ELSE <<ParsePattern(Head(patterns), <<>>).p>> \o StopAtFailure(Tail(patterns))

\* the patterns of a list that parse, in order (a pattern that does not is
\* skipped by "continue")
RECURSIVE CompileList(_)
CompileList(patterns) ==
    IF patterns = <<>> THEN <<>>
    ELSE LET Kept(parsed) == IF parsed.ok THEN <<parsed.p>> ELSE <<>>
         IN  Kept(ParsePattern(Head(patterns), <<>>)) \o CompileList(Tail(patterns))

\* The loops "for key, value := range m { out[strings.ToLower(key)] = value }":
\* the possible results.  Go visits the keys in an unspecified order, so when
\* two keys differ only in letter case the value of either may be the one left.
LowerKeyed(m) ==
    LET Over(keys) ==
            {f \in [keys -> Range(m)] :
                \A lk \in keys : \E k \in DOMAIN m : ToLower(k) = lk /\ f[lk] = m[k]}
    IN  Over({ToLower(k) : k \in DOMAIN m})

\* the header and cookie loops: a key is stored only when its pattern parses
CompileKeyed(m) ==
    LET Kept(parsed) == LowerKeyed([k \in {j \in DOMAIN m : parsed[j].ok} |-> parsed[k].p])
    IN  Kept([k \in DOMAIN m |-> ParsePattern(m[k], <<>>)])

\* the meta loop: a key is stored only when at least one of its patterns parses
CompileMeta(m) ==
    LET Kept(lists) == LowerKeyed([k \in {j \in DOMAIN m : lists[j] # <<>>} |-> lists[k]])
    IN  Kept([k \in DOMAIN m |-> CompileList(extractPatternList(m[k]))])

\* the JS loop keeps the key as written
CompileJS(m) ==
    LET Kept(parsed) == [k \in {j \in DOMAIN m : parsed[j].ok} |-> parsed[k].p]
    IN  Kept([k \in DOMAIN m |-> ParsePattern(m[k], <<>>)])

RECURSIVE Choices(_, _)
\* the maps with keys D that hold at each key k one of the values Of[k]
Choices(D, Of) ==
    IF D = {} THEN {EmptyMap}
    ELSE LET k == CHOOSE x \in D : TRUE
         IN  {rest @@ (k :> v) : rest \in Choices(D \ {k}, Of), v \in Of[k]}

\* the possible models.CompiledFingerprint values of one app
CompileApp(app) ==
    {[Cats |-> app.Cats, Description |-> app.Description, Website |-> app.Website,
      CPE |-> app.CPE, Icon |-> app.Icon,
      HeaderPatterns    |-> hp,
      CookiePatterns    |-> cp,
      HTMLPatterns      |-> CompileList(extractPatternList(app.HTML)),
      ScriptPatterns    |-> CompileList(extractPatternList(app.Script)),
      ScriptSrcPatterns |-> CompileList(extractPatternList(app.ScriptSrc)),
      MetaPatterns      |-> mp,
      JSPatterns        |-> CompileJS(app.JS),
      ImpliedTechs      |-> processImpliesList(app.Implies)] :
        hp \in CompileKeyed(app.Headers), cp \in CompileKeyed(app.Cookies),
        mp \in CompileMeta(app.Meta)}

\* CompileFingerprints: the possible compiled sets (it never returns an error)
CompileFingerprints(Apps) == Choices(DOMAIN Apps, [n \in DOMAIN Apps |-> CompileApp(Apps[n])])

\* every raw pattern string CompileFingerprints hands to ParsePattern
RawPatterns(Apps) ==
    UNION {Range(Apps[n].Headers) \cup Range(Apps[n].Cookies) \cup Range(Apps[n].JS)
           \cup Range(extractPatternList(Apps[n].HTML))
           \cup Range(extractPatternList(Apps[n].Script))
           \cup Range(extractPatternList(Apps[n].ScriptSrc))
           \cup UNION {Range(extractPatternList(Apps[n].Meta[k])) : k \in DOMAIN Apps[n].Meta}
           : n \in DOMAIN Apps}

\* A faulty CompileFingerprints whose ParsePattern caches no regex.
NoCaching(Apps, cache) == cache

\* the regexCache after CompileFingerprints: ParsePattern caches every regex
\* that compiles under its cleaned text
CompileCaches(Apps, cache) ==
    LET new == {cleanPatternString(r) : r \in {x \in RawPatterns(Apps) :
                    isRegexPattern(x) /\ ParsePattern(x, <<>>).ok}}
    IN  [k \in DOMAIN cache \cup new |->
            IF k \in DOMAIN cache THEN cache[k] ELSE normalizePattern(k)]

(***************************************************************************)
(* The HTML extractors (package parser: metaTagRegex, scriptRegex,          *)
(* jsVarRegex and the Extract functions), each regex as the scanner that    *)
(* finds its leftmost-first, greedy matches.                                *)
(***************************************************************************)
\* the least position p >= from at which sub occurs in s; 0 when none
IndexFrom(s, sub, from) ==
    LET at == {p \in from..(Len(s) - Len(sub) + 1) : SubSeq(s, p, p + Len(sub) - 1) = sub}
    IN  IF at = {} THEN 0 ELSE Least(at)

Greatest(S) == CHOOSE i \in S : \A j \in S : j <= i

Quotes == {"\"", "'"}

RECURSIVE RunEndNot(_, _, _)
\* the position after the longest run, from i, of characters outside cs
RunEndNot(s, i, cs) ==
    IF i <= Len(s) /\ CharAt(s, i) \notin cs THEN RunEndNot(s, i + 1, cs) ELSE i

\* ["']([^"']+)["'] at position q: [ok, val, next]
QuotedAt(s, q) ==
    LET e == RunEndNot(s, q + 1, Quotes)
    IN  IF q <= Len(s) /\ CharAt(s, q) \in Quotes /\ e > q + 1 /\ e <= Len(s)
        THEN [ok |-> TRUE, val |-> SubSeq(s, q + 1, e - 1), next |-> e + 1]
        ELSE [ok |-> FALSE, val |-> "", next |-> 0]

\* the last position [^>]* (or [^>]+) may cover when it starts at from
TagReach(s, from) ==
    LET gt == IndexFrom(s, ">", from) IN IF gt = 0 THEN Len(s) ELSE gt - 1

\* <script[^>]*src=["']([^"']+)["'][^>]*> at i: [ok, Source, end]
ScriptSrcAt(body, lb, i) ==
    LET from == i + 7
        cand == {j \in from..(TagReach(body, from) + 1) :
                    /\ At(lb, j, "src=")
                    /\ QuotedAt(body, j + 4).ok
                    /\ IndexFrom(body, ">", QuotedAt(body, j + 4).next) # 0}
    IN  IF At(lb, i, "<script") /\ cand # {}
        THEN LET q == QuotedAt(body, Greatest(cand) + 4)
             IN  [ok |-> TRUE, Source |-> q.val, end |-> IndexFrom(body, ">", q.next)]
        ELSE [ok |-> FALSE, Source |-> "", end |-> 0]

\* <script[^>]*>([\s\S]*?)</script> at i: [ok, Content, end]
ScriptBlockAt(body, lb, i) ==
    LET gt    == IndexFrom(body, ">", i + 7)
        close == IF gt = 0 THEN 0 ELSE IndexFrom(lb, "</script>", gt + 1)
    IN  IF At(lb, i, "<script") /\ gt # 0 /\ close # 0
        THEN [ok |-> TRUE, Content |-> SubSeq(body, gt + 1, close - 1), end |-> close + 8]
        ELSE [ok |-> FALSE, Content |-> "", end |-> 0]

RECURSIVE ScanScripts(_, _, _)
\* scriptRegex.FindAllSubmatch from position i, and the loop of ExtractScripts
ScanScripts(body, lb, i) ==
    IF i > Len(body) THEN <<>>
    ELSE LET a == ScriptSrcAt(body, lb, i)
             b == ScriptBlockAt(body, lb, i)
         IN  IF a.ok
             THEN <<[Source |-> a.Source, Content |-> ""]>> \o ScanScripts(body, lb, a.end + 1)
             ELSE IF b.ok
             THEN (IF b.Content # "" THEN <<[Source |-> "", Content |-> b.Content]>> ELSE <<>>)
                  \o ScanScripts(body, lb, b.end + 1)
             ELSE ScanScripts(body, lb, i + 1)

ExtractScripts(body) == ScanScripts(body, ToLower(body), 1)

NameChars ==
    {CharAt(UpperAlpha, k) : k \in 1..26} \cup {CharAt(LowerAlpha, k) : k \in 1..26}
    \cup {CharAt(Digits, k) : k \in 1..10} \cup {"_", "$"}

Spaces == {" ", "\t", "\n", "\r"}

\* var\s+([a-zA-Z0-9_$]+)\s*=\s*["']([^"']+)["'] at i: [ok, name, value, end]
JSVarAt(s, ls, i) ==
    LET n0 == RunEnd(s, i + 3, Spaces)
        n1 == RunEnd(s, n0, NameChars)
        eq == RunEnd(s, n1, Spaces)
        q  == QuotedAt(s, RunEnd(s, eq + 1, Spaces))
    IN  IF /\ At(ls, i, "var") /\ n0 > i + 3 /\ n1 > n0
           /\ eq <= Len(s) /\ CharAt(s, eq) = "=" /\ q.ok
        THEN [ok |-> TRUE, name |-> SubSeq(s, n0, n1 - 1), value |-> q.val, end |-> q.next - 1]
        ELSE [ok |-> FALSE, name |-> "", value |-> "", end |-> 0]

RECURSIVE ScanJSVars(_, _, _, _)
\* jsVarRegex.FindAllSubmatch on one script content, stored into results
ScanJSVars(s, ls, i, results) ==
    IF i > Len(s) THEN results
    ELSE LET m == JSVarAt(s, ls, i)
         IN  IF m.ok
             THEN ScanJSVars(s, ls, m.end + 1,
                             [k \in DOMAIN results \cup {m.name} |->
                                 IF k = m.name THEN m.value ELSE results[k]])
             ELSE ScanJSVars(s, ls, i + 1, results)

RECURSIVE JSOfScripts(_, _)
JSOfScripts(scripts, results) ==
    IF scripts = <<>> THEN results
    ELSE JSOfScripts(Tail(scripts),
                     IF Head(scripts).Content = "" THEN results
                     ELSE ScanJSVars(Head(scripts).Content, ToLower(Head(scripts).Content),
                                     1, results))

ExtractJS(body) == JSOfScripts(ExtractScripts(body), EmptyMap)

\* <meta[^>]+A=["']([^"']+)["'][^>]+B=["']([^"']+)["'] at i, for the attribute
\* names A then B (each with its "="): [ok, first, second, end]
MetaPairAt(body, lb, i, A, B) ==
    LET from  == i + 5
        candA == {j \in (from + 1)..(TagReach(body, from) + 1) :
                     /\ At(lb, j, A)
                     /\ QuotedAt(body, j + Len(A)).ok}
        secondOf(j) ==
            LET g     == QuotedAt(body, j + Len(A)).next
                candB == {k \in (g + 1)..(TagReach(body, g) + 1) :
                             /\ At(lb, k, B)
                             /\ QuotedAt(body, k + Len(B)).ok}
            IN  IF candB = {} THEN [ok |-> FALSE, val |-> "", next |-> 0]
                ELSE QuotedAt(body, Greatest(candB) + Len(B))
        good  == {j \in candA : secondOf(j).ok}
    IN  IF At(lb, i, "<meta") /\ good # {}
        THEN [ok |-> TRUE, first |-> QuotedAt(body, Greatest(good) + Len(A)).val,
              second |-> secondOf(Greatest(good)).val,
              end |-> secondOf(Greatest(good)).next - 1]
        ELSE [ok |-> FALSE, first |-> "", second |-> "", end |-> 0]

RECURSIVE ScanMeta(_, _, _, _)
\* metaTagRegex.FindAllSubmatch from position i and the loop of ExtractMetaTags
ScanMeta(body, lb, i, results) ==
    IF i > Len(body) THEN results
    ELSE LET a == MetaPairAt(body, lb, i, "name=", "content=")
             b == MetaPairAt(body, lb, i, "content=", "name=")
             put(name, content) ==
                 [k \in DOMAIN results \cup {ToLower(name)} |->
                     IF k = ToLower(name) THEN content ELSE results[k]]
         IN  IF a.ok THEN ScanMeta(body, lb, a.end + 1, put(a.first, a.second))
             ELSE IF b.ok THEN ScanMeta(body, lb, b.end + 1, put(b.second, b.first))
             ELSE ScanMeta(body, lb, i + 1, results)

ExtractMetaTags(body) == ScanMeta(body, ToLower(body), 1, EmptyMap)

(***************************************************************************)
(* internal/detection: the channel matchers.  Each returns the technology  *)
(* names it adds to the accumulator.                                        *)
(***************************************************************************)
\* The loops "for k, v := range m { normalized[strings.ToLower(k)] = v }": the
\* possible results (when two keys differ only in letter case, the one Go
\* visits last is the one left).
NormalizeKeys(m) == LowerKeyed(m)

\* MatchHeaders over one outcome of the normalization loop
HeadersMatched(headerPatterns, normalizedHeaders, cache) ==
    {tech \in DOMAIN headerPatterns :
        \E headerName \in DOMAIN headerPatterns[tech] :
            /\ ToLower(headerName) \in DOMAIN normalizedHeaders
            /\ \E i \in DOMAIN normalizedHeaders[ToLower(headerName)] :
                   EvaluatePattern(headerPatterns[tech][headerName],
                                   normalizedHeaders[ToLower(headerName)][i], cache).matched}

\* MatchHeaders: the possible sets of names added
MatchHeaders(headerPatterns, headers, cache) ==
    {HeadersMatched(headerPatterns, nh, cache) : nh \in NormalizeKeys(headers)}

\* A faulty store that keeps the value a name already has.
KeepFirstCookie(cookies, pair) ==
    LET parts == SplitN2(pair, "=")
        name  == ToLower(TrimSpace(parts[1]))
    IN  IF Len(parts) < 2 \/ name \in DOMAIN cookies THEN cookies
        ELSE [k \in DOMAIN cookies \cup {name} |->
                 IF k = name THEN TrimSpace(parts[2]) ELSE cookies[k]]

\* the "name=value" pair of ExtractCookiesFromHeaders, stored into cookies
PutCookie(cookies, pair) ==
    LET parts == SplitN2(pair, "=")
        name  == ToLower(TrimSpace(parts[1]))
    IN  IF Len(parts) < 2 THEN cookies
        ELSE [k \in DOMAIN cookies \cup {name} |->
                 IF k = name THEN TrimSpace(parts[2]) ELSE cookies[k]]

RECURSIVE CookiePairs(_, _)
\* the inner loop over the ";"-separated pairs of one Cookie header
CookiePairs(cookies, pairs) ==
    IF pairs = <<>> THEN cookies
    ELSE CookiePairs(IF TrimSpace(Head(pairs)) = "" THEN cookies
                     ELSE PutCookie(cookies, TrimSpace(Head(pairs))),
                     Tail(pairs))

RECURSIVE CookieHeaders(_, _)
CookieHeaders(cookies, values) ==
    IF values = <<>> THEN cookies
    ELSE CookieHeaders(CookiePairs(cookies, Split(Head(values), ";")), Tail(values))

RECURSIVE SetCookieHeaders(_, _)
SetCookieHeaders(cookies, values) ==
    IF values = <<>> THEN cookies
    ELSE SetCookieHeaders(PutCookie(cookies, SplitN2(Head(values), ";")[1]), Tail(values))

ExtractCookiesFromHeaders(headers) ==
    LET fromCookie == IF "Cookie" \in DOMAIN headers
                      THEN CookieHeaders(EmptyMap, headers["Cookie"]) ELSE EmptyMap
    IN  IF "Set-Cookie" \in DOMAIN headers
        THEN SetCookieHeaders(fromCookie, headers["Set-Cookie"]) ELSE fromCookie

CookiesMatched(cookiePatterns, normalizedCookies, cache) ==
    {tech \in DOMAIN cookiePatterns :
        \E cookieName \in DOMAIN cookiePatterns[tech] :
            /\ ToLower(cookieName) \in DOMAIN normalizedCookies
            /\ EvaluatePattern(cookiePatterns[tech][cookieName],
                               normalizedCookies[ToLower(cookieName)], cache).matched}

MatchCookies(cookiePatterns, cookies, cache) ==
    {CookiesMatched(cookiePatterns, nc, cache) : nc \in NormalizeKeys(cookies)}

MatchHTML(htmlPatterns, body, cache) ==
    {tech \in DOMAIN htmlPatterns :
        \E i \in DOMAIN htmlPatterns[tech] :
            EvaluatePattern(htmlPatterns[tech][i], body, cache).matched}

\* MatchScripts evaluates the script patterns on string(body)
MatchScripts(scriptPatterns, body, cache) ==
    {tech \in DOMAIN scriptPatterns :
        \E i \in DOMAIN scriptPatterns[tech] :
            EvaluatePattern(scriptPatterns[tech][i], body, cache).matched}

MatchScriptSrc(scriptSrcPatterns, scripts, cache) ==
    {tech \in DOMAIN scriptSrcPatterns :
        \E i \in DOMAIN scriptSrcPatterns[tech], j \in DOMAIN scripts :
            /\ scripts[j].Source # ""
            /\ EvaluatePattern(scriptSrcPatterns[tech][i], scripts[j].Source, cache).matched}

MetaMatched(metaPatterns, normalizedMeta, cache) ==
    {tech \in DOMAIN metaPatterns :
        \E metaName \in DOMAIN metaPatterns[tech] :
            /\ ToLower(metaName) \in DOMAIN normalizedMeta
            /\ \E i \in DOMAIN metaPatterns[tech][metaName] :
                   EvaluatePattern(metaPatterns[tech][metaName][i],
                                   normalizedMeta[ToLower(metaName)], cache).matched}

MatchMetaTags(metaPatterns, metaTags, cache) ==
    {MetaMatched(metaPatterns, nm, cache) : nm \in NormalizeKeys(metaTags)}

MatchJS(jsPatterns, jsVars, cache) ==
    {tech \in DOMAIN jsPatterns :
        \E jsName \in DOMAIN jsPatterns[tech] :
            /\ jsName \in DOMAIN jsVars
            /\ EvaluatePattern(jsPatterns[tech][jsName], jsVars[jsName], cache).matched}

(***************************************************************************)
(* pkg/wappalyzer: the configuration                                       *)
(***************************************************************************)
\* c.JSON = nil
NoJSON == [set |-> FALSE, empty |-> TRUE, doc |-> JNull]

\* c.JSON holding the bytes of a JSON document; empty: a zero-length slice
JSONBytes(doc) == [set |-> TRUE, empty |-> FALSE, doc |-> doc]

EmptyBytes == [set |-> TRUE, empty |-> TRUE, doc |-> JNull]

\* config := &Config{}
DefaultConfig ==
    [JSON |-> NoJSON,
     DisableJSDetection |-> FALSE, DisableHTMLDetection |-> FALSE,
     DisableCookieDetection |-> FALSE, DisableHeaderDetection |-> FALSE,
     DisableMetaDetection |-> FALSE, DisableScriptDetection |-> FALSE,
     MaxBodySize |-> 0]

WithCustomFingerprints(fingerprints) == [name |-> "WithCustomFingerprints", arg |-> fingerprints]

WithMaxBodySize(size) == [name |-> "WithMaxBodySize", arg |-> size]

WithoutJSDetection == [name |-> "WithoutJSDetection", arg |-> 0]

WithoutHTMLDetection == [name |-> "WithoutHTMLDetection", arg |-> 0]

WithoutCookieDetection == [name |-> "WithoutCookieDetection", arg |-> 0]

WithoutHeaderDetection == [name |-> "WithoutHeaderDetection", arg |-> 0]

WithoutMetaDetection == [name |-> "WithoutMetaDetection", arg |-> 0]

WithoutScriptDetection == [name |-> "WithoutScriptDetection", arg |-> 0]

WithAllDetections == [name |-> "WithAllDetections", arg |-> 0]

\* option(config)
ApplyOption(c, option) ==
    CASE option.name = "WithCustomFingerprints"  -> [c EXCEPT !.JSON = option.arg]
      [] option.name = "WithMaxBodySize"         -> [c EXCEPT !.MaxBodySize = option.arg]
      [] option.name = "WithoutJSDetection"      -> [c EXCEPT !.DisableJSDetection = TRUE]
      [] option.name = "WithoutHTMLDetection"    -> [c EXCEPT !.DisableHTMLDetection = TRUE]
      [] option.name = "WithoutCookieDetection"  -> [c EXCEPT !.DisableCookieDetection = TRUE]
      [] option.name = "WithoutHeaderDetection"  -> [c EXCEPT !.DisableHeaderDetection = TRUE]
      [] option.name = "WithoutMetaDetection"    -> [c EXCEPT !.DisableMetaDetection = TRUE]
      [] option.name = "WithoutScriptDetection"  -> [c EXCEPT !.DisableScriptDetection = TRUE]
      [] option.name = "WithAllDetections" ->
             [c EXCEPT !.DisableJSDetection = FALSE, !.DisableHTMLDetection = FALSE,
                       !.DisableCookieDetection = FALSE, !.DisableHeaderDetection = FALSE,
                       !.DisableMetaDetection = FALSE, !.DisableScriptDetection = FALSE]

RECURSIVE ApplyOptions(_, _)
\* for _, option := range options { option(config) }
ApplyOptions(c, options) ==
    IF options = <<>> THEN c ELSE ApplyOptions(ApplyOption(c, Head(options)), Tail(options))

(***************************************************************************)
(* pkg/wappalyzer: the process-wide tables and loadDataOnce                *)
(***************************************************************************)
\* a slice whose order is a map's iteration order is kept as the bag of its
\* elements (element -> number of occurrences)
EmptyBag == <<>>

BagAdd(b, e) == [x \in DOMAIN b \cup {e} |-> IF x = e THEN (IF e \in DOMAIN b THEN b[e] + 1 ELSE 1) ELSE b[x]]

BagOfSet(S) == [x \in S |-> 1]

\* the four tables as the first lines of the once body leave them
EmptyTables ==
    [categoriesMapping |-> EmptyMap, groupsMapping |-> EmptyMap,
     categoryToGroups |-> EmptyMap, groupCategories |-> EmptyMap]

\* the CategoryItem of one raw category
CategoryItem(raw) ==
    [Name     |-> IF DecodeString(Member(raw, "name")).ok
                  THEN DecodeString(Member(raw, "name")).val ELSE "",
     Priority |-> IF Member(raw, "priority").t = "number" THEN Member(raw, "priority").v ELSE 0,
     Groups   |-> IF DecodeIntList(Member(raw, "groups")).ok
                  THEN DecodeIntList(Member(raw, "groups")).val ELSE <<>>]

\* the keys of the category loop that reach "categoriesMapping[categoryID] = category"
CategoryKeys(categoriesData) ==
    {k \in DOMAIN categoriesData : categoriesData[k].t \in {"object", "null"} /\ Atoi(k).ok}

\* the keys of the group loop that reach "groupsMapping[groupID] = group"
GroupKeys(groupsData) ==
    {k \in DOMAIN groupsData :
        /\ groupsData[k].t \in {"object", "null"}
        /\ (groupsData[k].t = "object" => DecodeString(Member(groupsData[k], "name")).ok)
        /\ Atoi(k).ok}

\* the number of times id occurs in a list of ids
Occurrences(list, id) == Cardinality({i \in DOMAIN list : list[i] = id})

\* The tables the once body builds from the supplier's categories and groups.
\* (Two keys with one numeric value, such as "1" and "+1", would make the loop
\* order decide which entry stays; the model's data has no such keys.)
BuildTables(categoriesData, groupsData) ==
    LET ck    == CategoryKeys(categoriesData)
        ids   == {Atoi(k).n : k \in ck}
        keyOf(id)  == CHOOSE k \in ck : Atoi(k).n = id
        itemOf(id) == CategoryItem(categoriesData[keyOf(id)])
        grouped == {id \in ids : Len(itemOf(id).Groups) > 0}
        gids  == UNION {Range(itemOf(id).Groups) : id \in grouped}
        gk    == GroupKeys(groupsData)
        gkOf(g) == CHOOSE k \in gk : Atoi(k).n = g
    IN  [categoriesMapping |-> [id \in ids |-> itemOf(id)],
         categoryToGroups  |-> [id \in grouped |-> itemOf(id).Groups],
         groupCategories   |->
             [g \in gids |->
                 [id \in {c \in grouped : g \in Range(itemOf(c).Groups)} |->
                     Occurrences(itemOf(id).Groups, g)]],
         groupsMapping     |->
             [g \in {Atoi(k).n : k \in gk} |->
                 [Name |-> IF groupsData[gkOf(g)].t = "object"
                           THEN DecodeString(Member(groupsData[gkOf(g)], "name")).val
                           ELSE ""]]]

\* The body passed to syncOnce.Do, given the outcome of its
\* downloader.GetFingerprints call: the tables it leaves.
OnceBody(outcome) ==
    IF outcome.ok THEN BuildTables(outcome.categories, outcome.groups) ELSE EmptyTables

\* The error loadDataOnce returns.  "_, categoriesData, groupsData, err :=" inside
\* the function literal declares a new err in the literal's scope; the outer
\* "var err error", which is what "return err" returns, is never assigned.
LoadDataOnceErr(outcome) == FALSE

(***************************************************************************)
(* pkg/wappalyzer: New                                                     *)
(***************************************************************************)
\* an outcome of downloader.GetFingerprints: an error, or the three data sets
SupplierFails == [ok |-> FALSE, technologies |-> EmptyMap, categories |-> EmptyMap,
                  groups |-> EmptyMap]

SupplierReturns(technologies, categories, groups) ==
    [ok |-> TRUE, technologies |-> technologies, categories |-> categories, groups |-> groups]

\* processJSValues on app.JS, a map[string]string: "case map[string]string:
\* return jsData"
processJSValues(js) == js

\* the loop of New over technologiesData and json.Marshal: [ok, doc]
TechnologiesDoc(technologiesData) ==
    IF \E appName \in DOMAIN technologiesData : ~UnmarshalFingerprint(technologiesData[appName]).ok
    THEN [ok |-> FALSE, doc |-> JNull]
    ELSE [ok |-> TRUE,
          doc |-> JObj([k \in {"apps"} |->
                     JObj([appName \in DOMAIN technologiesData |->
                        LET app == UnmarshalFingerprint(technologiesData[appName]).app
                            named == IF app.Name = "" THEN [app EXCEPT !.Name = appName]
                                     ELSE app
                        IN  MarshalFingerprint(
                                [named EXCEPT !.JS = processJSValues(named.JS)])])])]

\* organizePatterns, buildImpliesMapping, buildCategoryMapping on the Wappalyze
\* that New allocates
Wappalyze(config, compiled) ==
    LET having(nonEmpty(_)) == {n \in DOMAIN compiled : nonEmpty(compiled[n])}
        hasHeader(a) == DOMAIN a.HeaderPatterns # {}
        hasCookie(a) == DOMAIN a.CookiePatterns # {}
        hasHTML(a)   == Len(a.HTMLPatterns) > 0
        hasScript(a) == Len(a.ScriptPatterns) > 0
        hasSrc(a)    == Len(a.ScriptSrcPatterns) > 0
        hasMeta(a)   == DOMAIN a.MetaPatterns # {}
        hasJS(a)     == DOMAIN a.JSPatterns # {}
        hasImplies(a) == Len(a.ImpliedTechs) > 0
        hasCats(a)   == Len(a.Cats) > 0
    IN  [config            |-> config,
         fingerprints      |-> compiled,
         headerPatterns    |-> [n \in having(hasHeader) |-> compiled[n].HeaderPatterns],
         cookiePatterns    |-> [n \in having(hasCookie) |-> compiled[n].CookiePatterns],
         htmlPatterns      |-> [n \in having(hasHTML) |-> compiled[n].HTMLPatterns],
         scriptPatterns    |-> [n \in having(hasScript) |-> compiled[n].ScriptPatterns],
         scriptSrcPatterns |-> [n \in having(hasSrc) |-> compiled[n].ScriptSrcPatterns],
         metaPatterns      |-> [n \in having(hasMeta) |-> compiled[n].MetaPatterns],
         jsPatterns        |-> [n \in having(hasJS) |-> compiled[n].JSPatterns],
         impliesMapping    |-> [n \in having(hasImplies) |-> compiled[n].ImpliedTechs],
         categoryMapping   |-> [n \in having(hasCats) |-> compiled[n].Cats]]

\* no *Wappalyze (the nil New returns with an error, and the state before any New)
NoEngine == [config |-> DefaultConfig, fingerprints |-> "nil"]

\* config.JSON != nil && len(config.JSON) > 0
UsesCustom(config) == config.JSON.set /\ ~config.JSON.empty

\* New(options...), given whether syncOnce has already run, the tables, the
\* regexCache, and the outcomes of the supplier calls it makes (onceOutcome: the
\* call of the once body, made only when syncOnce has not run; techOutcome: the
\* call of New itself, made only without custom bytes).  The possible results:
\* [err, w, tables, cache, calls], calls being the supplier calls made, in order.
New(options, onceDone, tables, cache, onceOutcome, techOutcome) ==
    LET tables1  == IF onceDone THEN tables ELSE OnceBody(onceOutcome)
        calls1   == IF onceDone THEN <<>> ELSE <<[by |-> "loadDataOnce", ok |-> onceOutcome.ok]>>
        loadErr  == ~onceDone /\ LoadDataOnceErr(onceOutcome)
        config   == ApplyOptions(DefaultConfig, options)
        calls2   == IF UsesCustom(config) THEN calls1
                    ELSE Append(calls1, [by |-> "New", ok |-> techOutcome.ok])
        supplied == IF techOutcome.ok THEN TechnologiesDoc(techOutcome.technologies)
                    ELSE [ok |-> FALSE, doc |-> JNull]
        data     == IF UsesCustom(config) THEN [ok |-> TRUE, doc |-> config.JSON.doc]
                    ELSE supplied
        decoded  == DecodeFingerprints(data.doc)
        failure(calls) == [err |-> TRUE, w |-> NoEngine, tables |-> tables1,
                           cache |-> cache, calls |-> calls]
    IN  IF loadErr THEN {failure(calls1)}
        ELSE IF ~data.ok \/ ~decoded.ok THEN {failure(calls2)}
        ELSE {[err |-> FALSE, w |-> Wappalyze(config, compiled), tables |-> tables1,
               cache |-> CompileCaches(decoded.Apps, cache), calls |-> calls2] :
                  compiled \in CompileFingerprints(decoded.Apps)}

(***************************************************************************)
(* pkg/wappalyzer: detection, implied technologies, result views           *)
(***************************************************************************)
\* <title[^>]*>(.*?)</title> at i, case-insensitive: [ok, title]
TitleAt(body, lb, i) ==
    LET gt    == IndexFrom(body, ">", i + 6)
        close == IF gt = 0 THEN 0 ELSE IndexFrom(lb, "</title>", gt + 1)
    IN  IF At(lb, i, "<title") /\ gt > 0 /\ close > 0
           /\ \A j \in (gt + 1)..(close - 1) : CharAt(body, j) # "\n"
        THEN [ok |-> TRUE, title |-> SubSeq(body, gt + 1, close - 1)]
        ELSE [ok |-> FALSE, title |-> ""]

ExtractTitle(body) ==
    LET lb == ToLower(body)
        at == {i \in 1..Len(body) : TitleAt(body, lb, i).ok}
    IN  IF at = {} THEN "" ELSE TitleAt(body, lb, Least(at)).title

\* A faulty detectTechnologies that runs every channel whatever the config says.
detectEveryChannel(w, headers, body, cache) ==
    {byHeader \cup byCookie \cup byMeta
     \cup MatchHTML(w.htmlPatterns, body, cache)
     \cup MatchScripts(w.scriptPatterns, body, cache)
     \cup MatchScriptSrc(w.scriptSrcPatterns, ExtractScripts(body), cache)
     \cup MatchJS(w.jsPatterns, ExtractJS(body), cache) :
        byHeader \in MatchHeaders(w.headerPatterns, headers, cache),
        byCookie \in MatchCookies(w.cookiePatterns, ExtractCookiesFromHeaders(headers), cache),
        byMeta \in MatchMetaTags(w.metaPatterns, ExtractMetaTags(body), cache)}

\* detectTechnologies on an empty technologies map: the possible maps it leaves
\* (one for each way the matchers' lower-casing of colliding keys may go).
\* Every regex the matchers evaluate was compiled, and cached, when New
\* compiled w.fingerprints, so evaluation leaves the regexCache as it is.
detectTechnologies(w, headers, body, cache) ==
    LET cookies == ExtractCookiesFromHeaders(headers)
        html    == IF ~w.config.DisableHTMLDetection
                   THEN MatchHTML(w.htmlPatterns, body, cache) ELSE {}
        scripts == IF ~w.config.DisableScriptDetection
                   THEN MatchScripts(w.scriptPatterns, body, cache)
                        \cup MatchScriptSrc(w.scriptSrcPatterns, ExtractScripts(body), cache)
                   ELSE {}
        metas   == IF ~w.config.DisableMetaDetection
                   THEN MatchMetaTags(w.metaPatterns, ExtractMetaTags(body), cache)
                   ELSE {{}}
        js      == IF ~w.config.DisableJSDetection
                   THEN MatchJS(w.jsPatterns, ExtractJS(body), cache) ELSE {}
    IN  {byHeader \cup byCookie \cup html \cup scripts \cup byMeta \cup js :
            byHeader \in MatchHeaders(w.headerPatterns, headers, cache),
            byCookie \in MatchCookies(w.cookiePatterns, cookies, cache),
            byMeta \in metas}

\* every pattern of the per-channel maps of w
EnginePatterns(w) ==
    UNION {Range(w.headerPatterns[n]) : n \in DOMAIN w.headerPatterns}
    \cup UNION {Range(w.cookiePatterns[n]) : n \in DOMAIN w.cookiePatterns}
    \cup UNION {Range(w.htmlPatterns[n]) : n \in DOMAIN w.htmlPatterns}
    \cup UNION {Range(w.scriptPatterns[n]) : n \in DOMAIN w.scriptPatterns}
    \cup UNION {Range(w.scriptSrcPatterns[n]) : n \in DOMAIN w.scriptSrcPatterns}
    \cup UNION {UNION {Range(w.metaPatterns[n][k]) : k \in DOMAIN w.metaPatterns[n]} :
                  n \in DOMAIN w.metaPatterns}
    \cup UNION {Range(w.jsPatterns[n]) : n \in DOMAIN w.jsPatterns}

RECURSIVE EvaluateAll(_, _)
\* the regexCache after EvaluatePattern on each pattern of the set
EvaluateAll(patterns, cache) ==
    IF patterns = {} THEN cache
    ELSE LET pattern == CHOOSE x \in patterns : TRUE
         IN  EvaluateAll(patterns \ {pattern}, EvaluateCaches(pattern, cache))

\* the regexCache after detectTechnologies.  The matchers evaluate patterns of
\* the per-channel maps of w, which ones depending on the config and on the
\* response; EvaluatePattern only ever adds entries, so the cache after
\* evaluating all of them holds every entry any call can add.
DetectCaches(w, cache) == EvaluateAll(EnginePatterns(w), cache)

RECURSIVE ImpliedLoop(_, _)
\* "for _, implied := range implies": st = [technologies, queue]
ImpliedLoop(implies, st) ==
    IF implies = <<>> THEN st
    ELSE ImpliedLoop(Tail(implies),
                     IF Head(implies) \notin st.technologies
                     THEN [technologies |-> st.technologies \cup {Head(implies)},
                           queue        |-> Append(st.queue, Head(implies))]
                     ELSE st)

RECURSIVE QueueLoop(_, _)
\* "for len(queue) > 0"
QueueLoop(impliesMapping, st) ==
    IF st.queue = <<>> THEN st
    ELSE LET current == Head(st.queue)
             st1     == [st EXCEPT !.queue = Tail(st.queue)]
         IN  QueueLoop(impliesMapping,
                       IF current \in DOMAIN impliesMapping
                       THEN ImpliedLoop(impliesMapping[current], st1) ELSE st1)

\* A faulty addImpliedTechnologies that adds nothing to the map.
DirectOnly(impliesMapping, technologies, queue) == technologies

\* A faulty addImpliedTechnologies that adds what the given technologies imply
\* and does not go on to what those imply in turn.
OneLevel(impliesMapping, technologies, queue) ==
    technologies
    \cup UNION {Range(impliesMapping[t]) : t \in technologies \cap DOMAIN impliesMapping}

\* A faulty addImpliedTechnologies that adds every implied name of the mapping,
\* reachable from the given technologies or not.
EveryImplied(impliesMapping, technologies, queue) ==
    technologies \cup UNION {Range(impliesMapping[t]) : t \in DOMAIN impliesMapping}

\* addImpliedTechnologies with the initial queue in the order "queue" (the order
\* in which the range over the technologies map yields them): the final map
addImpliedTechnologies(impliesMapping, technologies, queue) ==
    QueueLoop(impliesMapping, [technologies |-> technologies, queue |-> queue]).technologies

\* the technologies map after detectTechnologies and addImpliedTechnologies:
\* the possible [direct, technologies]
Detect(w, headers, body, cache) ==
    UNION {{[direct |-> d,
             technologies |-> addImpliedTechnologies(w.impliesMapping, d, q)] :
                q \in Orders(d)} : d \in detectTechnologies(w, headers, body, cache)}

\* models.AppInfo of a technology
AppInfoOf(w, technology) ==
    IF technology \in DOMAIN w.fingerprints
    THEN [Description |-> w.fingerprints[technology].Description,
          Website     |-> w.fingerprints[technology].Website]
    ELSE [Description |-> "", Website |-> ""]

\* models.CatsInfo of a technology
CatsInfoOf(w, technology) ==
    IF technology \in DOMAIN w.categoryMapping
    THEN [Cats |-> w.categoryMapping[technology]] ELSE [Cats |-> <<>>]

RECURSIVE CatNames(_, _)
\* catNames of FingerprintWithCategories: the names of the ids found in
\* categoriesMapping, in the order of catIDs
CatNames(catIDs, categoriesMapping) ==
    IF catIDs = <<>> THEN <<>>
    ELSE (IF Head(catIDs) \in DOMAIN categoriesMapping
          THEN <<categoriesMapping[Head(catIDs)].Name>> ELSE <<>>)
         \o CatNames(Tail(catIDs), categoriesMapping)

CategoriesOf(w, tables, technology) ==
    IF technology \in DOMAIN w.categoryMapping
    THEN CatNames(w.categoryMapping[technology], tables.categoriesMapping) ELSE <<>>

RECURSIVE BagOfNames(_, _)
\* the names of the group ids in ids that groupsMapping knows, as a bag (the
\* slice is filled in the iteration order of groupIDsMap)
BagOfNames(ids, groupsMapping) ==
    IF ids = {} THEN EmptyBag
    ELSE LET g == CHOOSE x \in ids : TRUE
             rest == BagOfNames(ids \ {g}, groupsMapping)
         IN  IF g \in DOMAIN groupsMapping THEN BagAdd(rest, groupsMapping[g].Name) ELSE rest

\* groupIDsMap of FingerprintWithGroups
GroupIDsOf(catIDs, tables) ==
    UNION {Range(tables.categoryToGroups[c]) :
              c \in Range(catIDs) \cap DOMAIN tables.categoryToGroups}

GroupsOf(w, tables, technology) ==
    IF technology \in DOMAIN w.categoryMapping
    THEN BagOfNames(GroupIDsOf(w.categoryMapping[technology], tables), tables.groupsMapping)
    ELSE EmptyBag

\* TechInfo of a technology (FingerprintWithTechInfo)
TechInfoOf(w, tables, technology) ==
    LET known == technology \in DOMAIN w.fingerprints
        catIDs == IF technology \in DOMAIN w.categoryMapping
                  THEN w.categoryMapping[technology] ELSE <<>>
        found == SelectSeq(catIDs, LAMBDA c : c \in DOMAIN tables.categoriesMapping)
    IN  [Name        |-> technology,
         Description |-> IF known THEN w.fingerprints[technology].Description ELSE "",
         Website     |-> IF known THEN w.fingerprints[technology].Website ELSE "",
         CPE         |-> IF known THEN w.fingerprints[technology].CPE ELSE "",
         Categories  |-> CatNames(catIDs, tables.categoriesMapping),
         Groups      |-> BagOfNames(GroupIDsOf(found, tables), tables.groupsMapping),
         Confidence  |-> 100]

\* Faulty views whose category and group listings skip the technologies that
\* w.categoryMapping does not hold (a continue without the empty entry).
CategorisedOnly(method, w, tables, technologies, body) ==
    LET listed == technologies \cap DOMAIN w.categoryMapping
    IN  CASE method = "Fingerprint" -> technologies
          [] method = "FingerprintWithInfo" -> [t \in technologies |-> AppInfoOf(w, t)]
          [] method = "FingerprintWithCats" -> [t \in listed |-> CatsInfoOf(w, t)]
          [] method = "FingerprintWithTitle" ->
                 [technologies |-> technologies, title |-> ExtractTitle(body)]
          [] method = "FingerprintWithCategories" ->
                 [t \in listed |-> CategoriesOf(w, tables, t)]
          [] method = "FingerprintWithGroups" -> [t \in listed |-> GroupsOf(w, tables, t)]
          [] method = "FingerprintWithTechInfo" ->
                 [t \in technologies |-> TechInfoOf(w, tables, t)]

\* Faulty views that leave out the technologies w.fingerprints does not hold.
KnownOnly(method, w, tables, technologies, body) ==
    LET known == technologies \cap DOMAIN w.fingerprints
    IN  CASE method = "Fingerprint" -> technologies
          [] method = "FingerprintWithInfo" -> [t \in known |-> AppInfoOf(w, t)]
          [] method = "FingerprintWithCats" -> [t \in known |-> CatsInfoOf(w, t)]
          [] method = "FingerprintWithTitle" ->
                 [technologies |-> technologies, title |-> ExtractTitle(body)]
          [] method = "FingerprintWithCategories" ->
                 [t \in known |-> CategoriesOf(w, tables, t)]
          [] method = "FingerprintWithGroups" -> [t \in known |-> GroupsOf(w, tables, t)]
          [] method = "FingerprintWithTechInfo" -> [t \in known |-> TechInfoOf(w, tables, t)]

\* what each detection method returns for a technologies map
View(method, w, tables, technologies, body) ==
    CASE method = "Fingerprint" -> technologies
      [] method = "FingerprintWithInfo" -> [t \in technologies |-> AppInfoOf(w, t)]
      [] method = "FingerprintWithCats" -> [t \in technologies |-> CatsInfoOf(w, t)]
      [] method = "FingerprintWithTitle" ->
             [technologies |-> technologies, title |-> ExtractTitle(body)]
      [] method = "FingerprintWithCategories" ->
             [t \in technologies |-> CategoriesOf(w, tables, t)]
      [] method = "FingerprintWithGroups" -> [t \in technologies |-> GroupsOf(w, tables, t)]
      [] method = "FingerprintWithTechInfo" ->
             [t \in technologies |-> TechInfoOf(w, tables, t)]

\* io.ReadAll of the response body behind the LimitReader of AnalyzeURL*
ReadBody(w, respBody) ==
    IF w.config.MaxBodySize > 0 /\ Len(respBody) > w.config.MaxBodySize
    THEN SubSeq(respBody, 1, w.config.MaxBodySize) ELSE respBody

\* GetTechByGroup keeping a technology only when all its categories are of the group
AllInGroup(w, tables, groupID) ==
    LET categories == IF groupID \in DOMAIN tables.groupCategories
                      THEN DOMAIN tables.groupCategories[groupID] ELSE {}
    IN  BagOfSet({tech \in DOMAIN w.categoryMapping :
                     /\ Range(w.categoryMapping[tech]) # {}
                     /\ Range(w.categoryMapping[tech]) \subseteq categories})

\* GetTechByGroup, after loadDataOnce: the technologies having a category of
\* the group, as a bag (the slice is filled in map order)
GetTechByGroup(w, tables, groupID) ==
    LET categories == IF groupID \in DOMAIN tables.groupCategories
                      THEN DOMAIN tables.groupCategories[groupID] ELSE {}
    IN  BagOfSet({tech \in DOMAIN w.categoryMapping :
                     Range(w.categoryMapping[tech]) \cap categories # {}})

(***************************************************************************)
(* The inputs: corpora, supplier outcomes, option lists, responses         *)
(***************************************************************************)
\* a JSON object given as a sequence of <<key, value>> pairs
Obj(pairs) == JObj([k \in {pairs[i][1] : i \in DOMAIN pairs} |->
                      pairs[CHOOSE i \in DOMAIN pairs : pairs[i][1] = k][2]])

Ints(list) == JArr([i \in DOMAIN list |-> JNum(list[i])])

Strs(list) == JArr([i \in DOMAIN list |-> JStr(list[i])])

\* the raw technologies of the main corpus
MainTechnologies ==
    Obj(<< <<"Foo", Obj(<< <<"headers", Obj(<< <<"X-Powered-By", JStr("Foo")>> >>)>>,
                           <<"cats", Ints(<<10>>)>>,
                           <<"implies", JStr("Bar")>>,
                           <<"description", JStr("Foo server")>>,
                           <<"website", JStr("https://foo.test")>> >>)>>,
           <<"Bar", Obj(<< <<"cats", Ints(<<20>>)>>,
                           <<"description", JStr("Bar runtime")>> >>)>>,
           <<"Sess", Obj(<< <<"cookies", Obj(<< <<"session", JStr("^abc")>> >>)>> >>)>>,
           <<"WP", Obj(<< <<"html", JStr("wp-content")>>,
                          <<"meta", Obj(<< <<"generator", JStr("WordPress")>> >>)>>,
                          <<"implies", Strs(<<"PHP">>)>>,
                          <<"cats", Ints(<<10, 99>>)>> >>)>>,
           <<"JQ", Obj(<< <<"scriptSrc", Strs(<<"jquery", "jq(">>)>> >>)>>,
           <<"App", Obj(<< <<"scripts", JStr("initApp")>> >>)>>,
           <<"Ver", Obj(<< <<"js", Obj(<< <<"appVer", JStr("\\d")>> >>)>> >>)>>,
           <<"A", Obj(<< <<"html", JStr("aaa")>>, <<"implies", JStr("B")>> >>)>>,
           <<"B", Obj(<< <<"implies", Strs(<<"A">>)>> >>)>> >>).v

\* a corpus one of whose entries does not decode into models.Fingerprint
\* ("cats" is a string)
BrokenTechnologies ==
    Obj(<< <<"Good", Obj(<< <<"html", JStr("wp-content")>> >>)>>,
           <<"Broken", Obj(<< <<"cats", JStr("x")>>, <<"html", JStr("aaa")>> >>)>> >>).v

MainCategories ==
    Obj(<< <<"10", Obj(<< <<"name", JStr("Web servers")>>, <<"groups", Ints(<<1>>)>> >>)>>,
           <<"20", Obj(<< <<"name", JStr("Runtimes")>>, <<"groups", Ints(<<1, 2>>)>> >>)>>,
           <<"x", Obj(<< <<"name", JStr("No id")>> >>)>> >>).v

MainGroups ==
    Obj(<< <<"1", Obj(<< <<"name", JStr("Servers")>> >>)>>,
           <<"2", Obj(<< <<"name", JStr("Languages")>> >>)>> >>).v

\* what a call of downloader.GetFingerprints may return
SupplierOutcomes ==
    {SupplierFails,
     SupplierReturns(MainTechnologies, MainCategories, MainGroups),
     SupplierReturns(BrokenTechnologies, MainCategories, MainGroups)}

\* the bytes of {"apps": technologies}
CorpusBytes(technologies) == JSONBytes(Obj(<< <<"apps", JObj(technologies)>> >>))

\* the MaxBodySize the clients of the model pass
BodyLimit == 4

\* the option lists the clients of the model pass to New
OptionLists ==
    LET main == WithCustomFingerprints(CorpusBytes(MainTechnologies))
    IN  {<<>>,
         <<main>>,
         <<main, WithoutHTMLDetection>>,
         <<main, WithoutScriptDetection>>,
         <<main, WithoutMetaDetection>>,
         <<main, WithoutJSDetection>>,
         <<main, WithoutHeaderDetection>>,
         <<main, WithoutCookieDetection>>,
         <<main, WithMaxBodySize(BodyLimit)>>,
         <<main, WithoutHTMLDetection, WithoutJSDetection, WithAllDetections>>,
         <<WithCustomFingerprints(CorpusBytes(BrokenTechnologies))>>,
         <<WithCustomFingerprints(EmptyBytes)>>}

\* a Go map given as a sequence of <<key, value>> pairs
Map(pairs) == Obj(pairs).v

\* the (headers, body) pairs the clients pass to the detection methods
Requests ==
    {[headers |-> Map(<< <<"X-Powered-By", <<"Foo/2.1">> >> >>), body |-> ""],
     [headers |-> Map(<< <<"x-powered-by", <<"foo">> >> >>), body |-> "<title>Hi</title>"],
     [headers |-> Map(<< <<"Set-Cookie", <<"session=abc1; Path=/">> >> >>), body |-> ""],
     [headers |-> EmptyMap, body |-> "<p> wp-content"],
     [headers |-> EmptyMap, body |-> "<meta name=\"generator\" content=\"WordPress\">"],
     [headers |-> EmptyMap,
      body |-> "wp-content <meta name='generator' content='WordPress 6'>"],
     [headers |-> EmptyMap, body |-> "<script src=\"jquery.js\"></script>"],
     [headers |-> EmptyMap, body |-> "<script>var appVer = '3'; initApp()</script>"],
     [headers |-> EmptyMap, body |-> "aaa"]}

\* what http.DefaultClient.Get may yield: an error, or a response (resp.Header
\* has canonical keys)
Responses ==
    {[ok |-> FALSE, headers |-> EmptyMap, body |-> ""],
     [ok |-> TRUE, headers |-> Map(<< <<"X-Powered-By", <<"Foo/2.1">> >> >>),
      body |-> "<p> wp-content"],
     [ok |-> TRUE, headers |-> EmptyMap, body |-> "aaa<title>T</title>"]}

\* the group and category ids the clients ask about
AskedIDs == {1, 2, 10, 7}

(***************************************************************************)
(* The engine's life: construction, detection calls, table getters         *)
(***************************************************************************)
VARIABLES
    syncOnce,     \* whether syncOnce.Do has run its function
    mappings,     \* categoriesMapping, groupsMapping, categoryToGroups, groupCategories
    regexCache,   \* parser.regexCache
    wappalyze,    \* the *Wappalyze the client holds (NoEngine: none)
    answers,      \* what detection on wappalyze yields for each headers and body
    lastCall,     \* the most recent call: what it was given and what it returned
    closureRun,   \* (the implication closure on its own) the mapping and the sets
    goroutines,   \* (concurrent first use) each goroutine's position
    onceGate,     \* (concurrent first use) the sync.Once and what its function did
    pureCall      \* (a function on its own) what it was given and what it returned

vars == <<syncOnce, mappings, regexCache, wappalyze, answers, lastCall, closureRun,
          goroutines, onceGate, pureCall>>

\* the variables of the other two specifications, which this one leaves alone
Idle == <<closureRun, goroutines, onceGate, pureCall>>

\* the tables and the regexCache as calls of New may find them
TableStates == {EmptyTables} \cup {OnceBody(outcome) : outcome \in SupplierOutcomes}

CacheStates ==
    {<<>>} \cup {CompileCaches(DecodeFingerprints(CorpusBytes(MainTechnologies).doc).Apps, <<>>)}

\* The calls of New: the options, the state found, and the outcomes of the
\* supplier calls.  An outcome is drawn only for a call that is made: none for
\* the once body when syncOnce has run, none for the technologies when the
\* options carry custom bytes.
NewCalls ==
    {c \in [options : OptionLists, onceDone : BOOLEAN, tables : TableStates,
            cache : CacheStates, onceOutcome : SupplierOutcomes,
            techOutcome : SupplierOutcomes] :
        /\ c.onceDone => c.onceOutcome = SupplierFails
        /\ ~c.onceDone => c.tables = EmptyTables /\ c.cache = <<>>
        /\ UsesCustom(ApplyOptions(DefaultConfig, c.options)) => c.techOutcome = SupplierFails}

\* the headers and body that detection on engine e may be given: those of a
\* request, or those AnalyzeURL* reads from a response
Given(e) ==
    {[headers |-> r.headers, body |-> r.body] : r \in Requests}
    \cup {[headers |-> r.headers, body |-> ReadBody(e, r.body)] :
             r \in {x \in Responses : x.ok}}

\* Detect on engine e for each of them.  (Every regex the matchers evaluate was
\* cached when e was compiled, and a cached regex is the one compiled from its
\* key: the regexCache is left as it is and does not bear on the result.)
Answers(e) ==
    IF e = NoEngine THEN <<>>
    ELSE [g \in Given(e) |-> Detect(e, g.headers, g.body, <<>>)]

\* New on each of these calls, each result with the answers of its engine
NewResults ==
    [c \in {x : x \in NewCalls} |->
        {[r |-> x, answers |-> Answers(x.w)] :
            x \in New(c.options, c.onceDone, c.tables, c.cache, c.onceOutcome,
                      c.techOutcome)}]

Init ==
    /\ syncOnce = FALSE
    /\ mappings = EmptyTables
    /\ regexCache = <<>>
    /\ wappalyze = NoEngine
    /\ answers = <<>>
    /\ lastCall = [op |-> "none"]
    /\ closureRun = <<>>
    /\ pureCall = <<>>
    /\ goroutines = <<>>
    /\ onceGate = <<>>

\* loadDataOnce from a getter or New, the supplier answering with outcome
LoadDataOnce(outcome) ==
    /\ syncOnce' = TRUE
    /\ mappings' = IF syncOnce THEN mappings ELSE OnceBody(outcome)

\* wappalyze, err := New(options...)
NewEngine ==
    \E c \in DOMAIN NewResults :
        /\ c.onceDone = syncOnce /\ c.tables = mappings /\ c.cache = regexCache
        /\ \E built \in NewResults[c] :
               /\ syncOnce' = TRUE
               /\ mappings' = built.r.tables
               /\ regexCache' = built.r.cache
               /\ wappalyze' = built.r.w
               /\ answers' = built.answers
               /\ lastCall' = [op |-> "New", options |-> c.options, err |-> built.r.err,
                               calls |-> built.r.calls, first |-> ~syncOnce,
                               onceOutcome |-> c.onceOutcome,
                               techOutcome |-> c.techOutcome]
        /\ UNCHANGED Idle

\* one of the detection methods called with headers and body
Call(method, headers, body) ==
    /\ wappalyze # NoEngine
    /\ \E d \in answers[[headers |-> headers, body |-> body]] :
           lastCall' = [op |-> method, headers |-> headers, body |-> body,
                        direct |-> d.direct, technologies |-> d.technologies,
                        result |-> View(method, wappalyze, mappings, d.technologies, body)]
    /\ regexCache' = DetectCaches(wappalyze, regexCache)
    /\ UNCHANGED <<syncOnce, mappings, wappalyze, answers, Idle>>

Fingerprint == \E r \in Requests : Call("Fingerprint", r.headers, r.body)

FingerprintWithInfo == \E r \in Requests : Call("FingerprintWithInfo", r.headers, r.body)

FingerprintWithCats == \E r \in Requests : Call("FingerprintWithCats", r.headers, r.body)

FingerprintWithTitle == \E r \in Requests : Call("FingerprintWithTitle", r.headers, r.body)

FingerprintWithCategories ==
    \E r \in Requests : Call("FingerprintWithCategories", r.headers, r.body)

FingerprintWithGroups == \E r \in Requests : Call("FingerprintWithGroups", r.headers, r.body)

FingerprintWithTechInfo ==
    \E r \in Requests : Call("FingerprintWithTechInfo", r.headers, r.body)

\* one of the AnalyzeURL methods, which hands the fetched response to method
Analyze(op, method) ==
    /\ wappalyze # NoEngine
    /\ \E resp \in Responses :
           IF ~resp.ok
           THEN /\ lastCall' = [op |-> op, err |-> TRUE, sent |-> resp.body]
                /\ regexCache' = regexCache
           ELSE LET Read(body) ==
                        \E d \in answers[[headers |-> resp.headers, body |-> body]] :
                            lastCall' = [op |-> op, err |-> FALSE, sent |-> resp.body,
                                         headers |-> resp.headers, body |-> body,
                                         direct |-> d.direct,
                                         technologies |-> d.technologies,
                                         result |-> View(method, wappalyze, mappings,
                                                         d.technologies, body)]
                IN  /\ Read(ReadBody(wappalyze, resp.body))
                    /\ regexCache' = DetectCaches(wappalyze, regexCache)
    /\ UNCHANGED <<syncOnce, mappings, wappalyze, answers, Idle>>

AnalyzeURL == Analyze("AnalyzeURL", "Fingerprint")

AnalyzeURLWithInfo == Analyze("AnalyzeURLWithInfo", "FingerprintWithInfo")

AnalyzeURLWithCats == Analyze("AnalyzeURLWithCats", "FingerprintWithCats")

AnalyzeURLWithTitle == Analyze("AnalyzeURLWithTitle", "FingerprintWithTitle")

\* what the getter op returns for id, the tables being t
TableRead(op, id, t) ==
    CASE op = "GetCategoriesMapping" -> t.categoriesMapping
      [] op = "GetGroupsMapping" -> t.groupsMapping
      [] op = "GetCategoryGroups" ->
             IF id \in DOMAIN t.categoryToGroups THEN t.categoryToGroups[id] ELSE <<>>
      [] op = "GetGroupCategories" ->
             IF id \in DOMAIN t.groupCategories THEN t.groupCategories[id] ELSE EmptyBag
      [] op = "GetTechByGroup" -> GetTechByGroup(wappalyze, t, id)

\* a getter of the tables: loadDataOnce, then the read
Getter(op, id) ==
    \E outcome \in SupplierOutcomes :
        /\ syncOnce => outcome = SupplierFails
        /\ LoadDataOnce(outcome)
        /\ lastCall' = [op |-> op, id |-> id, first |-> ~syncOnce,
                        result |-> TableRead(op, id, mappings')]
        /\ UNCHANGED <<regexCache, wappalyze, answers, Idle>>

GetCategoriesMapping == Getter("GetCategoriesMapping", 0)

GetGroupsMapping == Getter("GetGroupsMapping", 0)

GetCategoryGroups == \E categoryID \in AskedIDs : Getter("GetCategoryGroups", categoryID)

GetGroupCategories == \E groupID \in AskedIDs : Getter("GetGroupCategories", groupID)

\* w.GetTechByGroup(groupID), which begins with GetGroupCategories(groupID)
TechByGroup ==
    /\ wappalyze # NoEngine
    /\ \E groupID \in AskedIDs : Getter("GetTechByGroup", groupID)

Next ==
    \/ NewEngine
    \/ Fingerprint
    \/ FingerprintWithInfo
    \/ FingerprintWithCats
    \/ FingerprintWithTitle
    \/ FingerprintWithCategories
    \/ FingerprintWithGroups
    \/ FingerprintWithTechInfo
    \/ AnalyzeURL
    \/ AnalyzeURLWithInfo
    \/ AnalyzeURLWithCats
    \/ AnalyzeURLWithTitle
    \/ GetCategoriesMapping
    \/ GetGroupsMapping
    \/ GetCategoryGroups
    \/ GetGroupCategories
    \/ TechByGroup

Spec == Init /\ [][Next]_vars

(***************************************************************************)
(* Properties of the engine's life (Spec)                                  *)
(***************************************************************************)
RECURSIVE Closure(_, _)
\* the least set that holds S and, with each member, what the mapping lists for it
Closure(impliesMapping, S) ==
    LET step == S \cup UNION {Range(impliesMapping[t]) : t \in S \cap DOMAIN impliesMapping}
    IN  IF step = S THEN S ELSE Closure(impliesMapping, step)

\* the names of the categories of technology t that the category table holds
RegisteredCategoryNames(t) ==
    LET ids  == IF t \in DOMAIN wappalyze.fingerprints
                THEN wappalyze.fingerprints[t].Cats ELSE <<>>
        kept == SelectSeq(ids, LAMBDA c : c \in DOMAIN mappings.categoriesMapping)
    IN  [i \in DOMAIN kept |-> mappings.categoriesMapping[kept[i]].Name]

\* the headers of the Foo/Bar scenario
FooHeaders == Map(<< <<"X-Powered-By", <<"Foo/2.1">> >> >>)

\* the last call was the Foo/Bar scenario: the corpus holds Foo and Bar, the
\* headers are X-Powered-By: Foo/2.1, the body is empty
FooBarScenario ==
    /\ {"Foo", "Bar"} \subseteq DOMAIN wappalyze.fingerprints
    /\ lastCall.headers = FooHeaders
    /\ lastCall.body = ""

\* C1: Fingerprint returns exactly the directly matched technologies and what
\* they imply, and FingerprintWithCategories maps each of these names to the
\* names of its registered categories; in the Foo/Bar scenario Fingerprint
\* returns {Foo, Bar} and, the tables being loaded, the category-name view is
\* Foo -> [Web servers], Bar -> [Runtimes].
FingerprintIsDirectPlusImplied ==
    /\ lastCall.op = "Fingerprint" =>
           /\ lastCall.result = Closure(wappalyze.impliesMapping, lastCall.direct)
           /\ FooBarScenario => lastCall.result = {"Foo", "Bar"}
    /\ lastCall.op = "FingerprintWithCategories" =>
           /\ DOMAIN lastCall.result = Closure(wappalyze.impliesMapping, lastCall.direct)
           /\ \A t \in DOMAIN lastCall.result :
                  lastCall.result[t] = RegisteredCategoryNames(t)
           /\ (FooBarScenario /\ {10, 20} \subseteq DOMAIN mappings.categoriesMapping) =>
                  lastCall.result = ("Foo" :> <<"Web servers">> @@ "Bar" :> <<"Runtimes">>)

\* the category-name view of the Foo/Bar scenario has been returned
FooBarCategoriesReturned ==
    /\ lastCall.op = "FingerprintWithCategories"
    /\ FooBarScenario
    /\ lastCall.direct = {"Foo"}
    /\ lastCall.result = ("Foo" :> <<"Web servers">> @@ "Bar" :> <<"Runtimes">>)

\* the detection channels
Channels == {"header", "cookie", "html", "script", "meta", "js"}

\* the technologies one of whose patterns of the channel matches
Evidence(channel, e, headers, body) ==
    CASE channel = "header" -> UNION MatchHeaders(e.headerPatterns, headers, <<>>)
      [] channel = "cookie" ->
             UNION MatchCookies(e.cookiePatterns, ExtractCookiesFromHeaders(headers), <<>>)
      [] channel = "html" -> MatchHTML(e.htmlPatterns, body, <<>>)
      [] channel = "script" ->
             MatchScripts(e.scriptPatterns, body, <<>>)
             \cup MatchScriptSrc(e.scriptSrcPatterns, ExtractScripts(body), <<>>)
      [] channel = "meta" ->
             UNION MatchMetaTags(e.metaPatterns, ExtractMetaTags(body), <<>>)
      [] channel = "js" -> MatchJS(e.jsPatterns, ExtractJS(body), <<>>)

\* the config says the channel is off
SwitchedOff(channel, config) ==
    CASE channel = "header" -> config.DisableHeaderDetection
      [] channel = "cookie" -> config.DisableCookieDetection
      [] channel = "html" -> config.DisableHTMLDetection
      [] channel = "script" -> config.DisableScriptDetection
      [] channel = "meta" -> config.DisableMetaDetection
      [] channel = "js" -> config.DisableJSDetection

\* The toggle of the channel does what it says in the last Fingerprint call: no
\* reported technology has its only evidence in the channel unless another
\* reported technology implies it, and what the channels left on match is
\* reported.
ToggleHolds(channel) ==
    (lastCall.op = "Fingerprint" /\ SwitchedOff(channel, wappalyze.config)) =>
        LET ev(c) == Evidence(c, wappalyze, lastCall.headers, lastCall.body)
            others == Channels \ {channel}
            elsewhere == UNION {ev(c) : c \in others}
            leftOn == UNION {ev(c) : c \in {x \in others : ~SwitchedOff(x, wappalyze.config)}}
            impliedBy(u) == IF u \in DOMAIN wappalyze.impliesMapping
                            THEN Range(wappalyze.impliesMapping[u]) ELSE {}
        IN  /\ \A t \in lastCall.result :
                   (t \in ev(channel) /\ t \notin elsewhere) =>
                       \E u \in lastCall.result \ {t} : t \in impliedBy(u)
            /\ leftOn \subseteq lastCall.result

\* C3: with the HTML, script, meta or JS toggle set, Fingerprint reports no
\* technology whose only evidence is a pattern of that channel (unless another
\* reported technology implies it) and still reports every technology matched
\* through another channel; the script toggle covers the inline-script and the
\* script-src patterns.
BodyTogglesHold == \A channel \in {"html", "script", "meta", "js"} : ToggleHolds(channel)

\* an engine with HTML detection off was given a body that only its HTML
\* patterns match, and reported nothing
HTMLToggleSuppressed ==
    /\ lastCall.op = "Fingerprint"
    /\ wappalyze.config.DisableHTMLDetection
    /\ lastCall.body = "<p> wp-content"
    /\ "WP" \in Evidence("html", wappalyze, lastCall.headers, lastCall.body)
    /\ lastCall.result = {}

\* C4: with DisableHeaderDetection set no technology is reported whose only
\* evidence is a header pattern, and with DisableCookieDetection set none whose
\* only evidence is a cookie pattern.
HeaderAndCookieTogglesHold == \A channel \in {"header", "cookie"} : ToggleHolds(channel)

\* the detection methods called with headers and body
DetectionMethods ==
    {"Fingerprint", "FingerprintWithInfo", "FingerprintWithCats", "FingerprintWithTitle",
     "FingerprintWithCategories", "FingerprintWithGroups", "FingerprintWithTechInfo"}

\* the first n bytes of body
FirstBytes(body, n) == IF Len(body) > n THEN SubSeq(body, 1, n) ELSE body

\* C5: with MaxBodySize n > 0 every detection call works on the first n bytes
\* of the body it is given: it reports what detection on those bytes reports.
DetectionTruncatesBody ==
    (lastCall.op \in DetectionMethods /\ wappalyze.config.MaxBodySize > 0) =>
        \E d \in Detect(wappalyze, lastCall.headers,
                        FirstBytes(lastCall.body, wappalyze.config.MaxBodySize), <<>>) :
            lastCall.technologies = d.technologies

\* C6: a New given custom fingerprint bytes makes no call of the supplier.
CustomBytesBypassSupplier ==
    (lastCall.op = "New" /\ UsesCustom(ApplyOptions(DefaultConfig, lastCall.options))) =>
        lastCall.calls = <<>>

\* C7: a New one of whose supplier calls failed returns an error and no engine.
SupplierFailureFailsNew ==
    (lastCall.op = "New" /\ \E i \in DOMAIN lastCall.calls : ~lastCall.calls[i].ok) =>
        (lastCall.err /\ wappalyze = NoEngine)

\* the raw technologies the last New was supplied with
SuppliedTechnologies ==
    LET config == ApplyOptions(DefaultConfig, lastCall.options)
    IN  IF UsesCustom(config) THEN Member(config.JSON.doc, "apps").v
        ELSE lastCall.techOutcome.technologies

\* C8: a New whose corpus was supplied does not fail for an entry that cannot
\* be decoded: it returns an engine that holds every entry that can.
UndecodableEntryIsSkipped ==
    (/\ lastCall.op = "New"
     /\ UsesCustom(ApplyOptions(DefaultConfig, lastCall.options)) \/ lastCall.techOutcome.ok) =>
        /\ ~lastCall.err
        /\ \A n \in DOMAIN SuppliedTechnologies :
               UnmarshalFingerprint(SuppliedTechnologies[n]).ok =>
                   n \in DOMAIN wappalyze.fingerprints

\* the enriched views
EnrichedViews ==
    {"FingerprintWithInfo", "FingerprintWithCats", "FingerprintWithCategories",
     "FingerprintWithGroups", "FingerprintWithTechInfo"}

\* the entry of a view has its description and website empty (where it has
\* them and noSignature says they must be) and its category and group fields
\* empty
EmptyFields(method, entry, noSignature) ==
    CASE method = "FingerprintWithInfo" ->
             noSignature => (entry.Description = "" /\ entry.Website = "")
      [] method = "FingerprintWithCats" -> entry.Cats = <<>>
      [] method = "FingerprintWithCategories" -> entry = <<>>
      [] method = "FingerprintWithGroups" -> DOMAIN entry = {}
      [] method = "FingerprintWithTechInfo" ->
             /\ noSignature => (entry.Description = "" /\ entry.Website = "")
             /\ entry.Categories = <<>>
             /\ DOMAIN entry.Groups = {}

\* C10: every name of the expanded match set is in every enriched view; a name
\* without compiled signature has empty description, website, category and
\* group fields there, and a name without category entry has empty category
\* and group fields.
DanglingNamesStayWithEmptyFields ==
    lastCall.op \in EnrichedViews =>
        \A t \in lastCall.technologies :
            /\ t \in DOMAIN lastCall.result
            /\ (t \notin DOMAIN wappalyze.fingerprints \/ t \notin DOMAIN wappalyze.categoryMapping)
                   => EmptyFields(lastCall.op, lastCall.result[t],
                                  t \notin DOMAIN wappalyze.fingerprints)

\* the comprehensive view was returned, the tables being loaded, for a match
\* set that holds PHP, which WP implies and no signature describes
DanglingPHPReturned ==
    /\ lastCall.op = "FingerprintWithTechInfo"
    /\ 10 \in DOMAIN mappings.categoriesMapping
    /\ "PHP" \in lastCall.technologies
    /\ "PHP" \notin DOMAIN wappalyze.fingerprints
    /\ lastCall.result["PHP"].Description = ""
    /\ lastCall.result["WP"].Categories = <<"Web servers">>

\* the technologies of the engine that have a category listing group g
GroupMembers(g) ==
    {tech \in DOMAIN wappalyze.categoryMapping :
        \E c \in Range(wappalyze.categoryMapping[tech]) :
            /\ c \in DOMAIN mappings.categoryToGroups
            /\ g \in Range(mappings.categoryToGroups[c])}

\* C14: GetTechByGroup(g) always returns: the empty list for a group that no
\* category lists, otherwise exactly the technologies that have at least one
\* category of group g, each of them once.
TechByGroupIsExact ==
    lastCall.op = "GetTechByGroup"
        => /\ DOMAIN lastCall.result = GroupMembers(lastCall.id)
           /\ \A tech \in DOMAIN lastCall.result : lastCall.result[tech] = 1
           /\ (\A c \in DOMAIN mappings.categoryToGroups :
                   lastCall.id \notin Range(mappings.categoryToGroups[c]))
                  => lastCall.result = EmptyBag

\* group 1 was asked, the tables being loaded: Foo and WP are of category 10
\* and Bar of category 20, both of group 1; WP is also of category 99, which
\* is of no group
ServersGroupListed ==
    /\ lastCall.op = "GetTechByGroup"
    /\ lastCall.id = 1
    /\ {"Foo", "Bar", "WP"} \subseteq DOMAIN lastCall.result
    /\ 99 \in Range(wappalyze.categoryMapping["WP"])

\* the detection and enrichment methods
DetectionCalls ==
    {"Fingerprint", "FingerprintWithInfo", "FingerprintWithCats", "FingerprintWithTitle",
     "FingerprintWithCategories", "FingerprintWithGroups", "FingerprintWithTechInfo",
     "GetTechByGroup"}

\* C19: no detection or enrichment call (Fingerprint, FingerprintWith...,
\* GetTechByGroup) changes shared state: the engine with its compiled signature
\* set, per-channel pattern maps and implies and category mappings, the global
\* tables and the regex cache are after the call what they were before it.
DetectionLeavesSharedState ==
    [][lastCall'.op \in DetectionCalls
          => /\ wappalyze' = wappalyze
             /\ mappings' = mappings
             /\ syncOnce' = syncOnce
             /\ regexCache' = regexCache]_vars

\* a detection call has matched Sess by its cookie pattern, a regex the cache holds
RegexMatchedFromCache ==
    /\ lastCall.op \in DetectionCalls \ {"GetTechByGroup"}
    /\ "Sess" \in lastCall.direct
    /\ ~wappalyze.cookiePatterns["Sess"]["session"].IsLiteral
    /\ wappalyze.cookiePatterns["Sess"]["session"].Pattern \in DOMAIN regexCache

\* the name sets Fingerprint returns for the headers and body of the last call
FingerprintNames ==
    {View("Fingerprint", wappalyze, mappings, d.technologies, lastCall.body) :
        d \in answers[[headers |-> lastCall.headers, body |-> lastCall.body]]}

\* the group names FingerprintWithGroups and FingerprintWithTechInfo list for
\* the technologies of the last call, as sets
GroupNamesOf(method) ==
    LET result == View(method, wappalyze, mappings, lastCall.technologies, lastCall.body)
    IN  [t \in DOMAIN result |->
            DOMAIN (IF method = "FingerprintWithTechInfo" THEN result[t].Groups
                    ELSE result[t])]

\* C30: for one engine and one (headers, body) every enriched view has the key
\* set of Fingerprint: the keys of FingerprintWithInfo, WithCats,
\* WithCategories, WithGroups and WithTechInfo are exactly a name set that
\* Fingerprint returns, and for every name the group names of WithTechInfo
\* are, as a set, those of WithGroups.
ViewsShareKeySet ==
    lastCall.op \in EnrichedViews =>
        /\ DOMAIN lastCall.result \in FingerprintNames
        /\ lastCall.op \in {"FingerprintWithGroups", "FingerprintWithTechInfo"} =>
               /\ GroupNamesOf(lastCall.op) =
                      [t \in DOMAIN lastCall.result |->
                          DOMAIN (IF lastCall.op = "FingerprintWithTechInfo"
                                  THEN lastCall.result[t].Groups ELSE lastCall.result[t])]
               /\ GroupNamesOf("FingerprintWithGroups") =
                      GroupNamesOf("FingerprintWithTechInfo")

\* the group view was returned, the tables being loaded, for a match set
\* that holds WP, whose category lists a group, and PHP, which has no category
GroupViewOfWPAndPHP ==
    /\ lastCall.op = "FingerprintWithGroups"
    /\ DOMAIN lastCall.result = {"WP", "PHP"}
    /\ "PHP" \notin DOMAIN wappalyze.categoryMapping
    /\ DOMAIN lastCall.result["WP"] = {"Servers"}
    /\ DOMAIN lastCall.result["PHP"] = {}

(***************************************************************************)
(* addImpliedTechnologies on its own, over every small implies mapping     *)
(***************************************************************************)
\* the technology names of these runs
ClosureNames == {"A", "B", "C"}

\* the greatest length of an implies list
MaxImplies == 2

\* the implies lists: non-empty (buildImpliesMapping stores no empty list)
ImpliesLists == UNION {[1..n -> ClosureNames] : n \in 1..MaxImplies}

\* the implies mappings
ImpliesMappings == UNION {[D -> ImpliesLists] : D \in SUBSET ClosureNames}

InitClosure ==
    /\ syncOnce = FALSE
    /\ mappings = EmptyTables
    /\ regexCache = <<>>
    /\ wappalyze = NoEngine
    /\ answers = <<>>
    /\ lastCall = [op |-> "none"]
    /\ goroutines = <<>>
    /\ onceGate = <<>>
    /\ pureCall = <<>>
    /\ \E m \in ImpliesMappings, d \in SUBSET ClosureNames :
           closureRun = [impliesMapping |-> m, given |-> d, technologies |-> d, runs |-> 0]

\* w.addImpliedTechnologies(technologies), on the map the previous run left
AddImplied ==
    /\ closureRun.runs < 2
    /\ \E queue \in Orders(closureRun.technologies) :
           closureRun' =
               [closureRun EXCEPT
                   !.given = closureRun.technologies,
                   !.technologies = addImpliedTechnologies(closureRun.impliesMapping,
                                                           closureRun.technologies, queue),
                   !.runs = @ + 1]
    /\ UNCHANGED <<syncOnce, mappings, regexCache, wappalyze, answers, lastCall,
                   goroutines, onceGate, pureCall>>

NextClosure == AddImplied

SpecClosure == InitClosure /\ [][NextClosure]_vars

\* the mapping in which A implies B and B implies A
CyclicMapping == ("A" :> <<"B">> @@ "B" :> <<"A">>)

\* C2: addImpliedTechnologies applied to a set that is its own output returns
\* that set, for every implies mapping; and for the mapping A implies B, B
\* implies A, with A alone given, it returns {A, B}.
ClosureIsIdempotent ==
    /\ closureRun.runs = 2 => closureRun.technologies = closureRun.given
    /\ (/\ closureRun.runs = 1
        /\ closureRun.impliesMapping = CyclicMapping
        /\ closureRun.given = {"A"}) => closureRun.technologies = {"A", "B"}

\* a chain A -> B -> C was expanded from A, and expanded again
ChainExpandedTwice ==
    /\ closureRun.runs = 2
    /\ closureRun.impliesMapping = ("A" :> <<"B">> @@ "B" :> <<"C">>)
    /\ closureRun.given = {"A", "B", "C"}
    /\ closureRun.technologies = {"A", "B", "C"}

\* C17: after addImpliedTechnologies the match set is exactly the set of names
\* reachable from the directly matched names through the implies mapping: it
\* holds implied names that are no key of the mapping, and no other name.
MatchSetIsReachableSet ==
    closureRun.runs >= 1
        => closureRun.technologies = Closure(closureRun.impliesMapping, closureRun.given)

\* A alone was expanded where A implies B, which the mapping does not hold, and
\* C, which nothing reaches, implies A
DanglingReachedOnly ==
    /\ closureRun.runs = 1
    /\ closureRun.impliesMapping = ("A" :> <<"B">> @@ "C" :> <<"A">>)
    /\ closureRun.given = {"A"}
    /\ closureRun.technologies = {"A", "B"}

(***************************************************************************)
(* Concurrent first use of loadDataOnce                                    *)
(***************************************************************************)
\* the number of goroutines
Goroutines == 2

\* the functions that begin with loadDataOnce()
FirstUses == {"New", "GetCategoriesMapping", "GetGroupsMapping", "GetCategoryGroups",
              "GetGroupCategories"}

InitOnce ==
    /\ syncOnce = FALSE
    /\ mappings = EmptyTables
    /\ regexCache = <<>>
    /\ wappalyze = NoEngine
    /\ answers = <<>>
    /\ lastCall = [op |-> "none"]
    /\ closureRun = <<>>
    /\ pureCall = <<>>
    /\ goroutines \in [1..Goroutines -> [pc : {"call"}, fn : FirstUses, path : {"none"}, read : {"nothing"}]]
    /\ onceGate = [m |-> 0, runs |-> 0, running |-> FALSE, completed |-> FALSE,
                   data |-> SupplierFails]

\* A faulty Once whose mutex excludes nobody.
Unlocked(gate, g) == TRUE

\* whether goroutine g may take the mutex of syncOnce
MayLock(gate, g) == gate.m = 0

\* goroutine g moves to pc; nothing of the engine is touched
Goto(g, pc) ==
    /\ goroutines' = [goroutines EXCEPT ![g].pc = pc]
    /\ UNCHANGED <<regexCache, wappalyze, answers, lastCall, closureRun, pureCall>>

\* syncOnce.Do, fast path: the atomic load of done
DoLoad(g) ==
    /\ goroutines[g].pc = "call"
    /\ goroutines' = [goroutines EXCEPT
                          ![g].pc = IF syncOnce THEN "return" ELSE "lock",
                          ![g].path = IF syncOnce THEN "fast" ELSE "slow"]
    /\ UNCHANGED <<syncOnce, mappings, onceGate>>
    /\ UNCHANGED <<regexCache, wappalyze, answers, lastCall, closureRun, pureCall>>

\* syncOnce.Do, slow path: o.m.Lock(), then done is looked at again
DoLock(g) ==
    /\ goroutines[g].pc = "lock"
    /\ MayLock(onceGate, g)
    /\ onceGate' = [onceGate EXCEPT !.m = g]
    /\ Goto(g, IF syncOnce THEN "unlock" ELSE "make")
    /\ UNCHANGED <<syncOnce, mappings>>

\* the function: the four make(...)
BodyMake(g) ==
    /\ goroutines[g].pc = "make"
    /\ mappings' = EmptyTables
    /\ onceGate' = [onceGate EXCEPT !.runs = @ + 1, !.running = TRUE]
    /\ Goto(g, "get")
    /\ UNCHANGED syncOnce

\* the function: downloader.GetFingerprints, and the return on its error
BodyGet(g) ==
    /\ goroutines[g].pc = "get"
    /\ \E outcome \in SupplierOutcomes :
           /\ onceGate' = [onceGate EXCEPT !.data = outcome]
           /\ Goto(g, IF outcome.ok THEN "categories" ELSE "done")
    /\ UNCHANGED <<syncOnce, mappings>>

\* the function: the loop over categoriesData
BodyCategories(g) ==
    /\ goroutines[g].pc = "categories"
    /\ mappings' = [BuildTables(onceGate.data.categories, <<>>) EXCEPT
                       !.groupsMapping = mappings.groupsMapping]
    /\ Goto(g, "groups")
    /\ UNCHANGED <<syncOnce, onceGate>>

\* the function: the loop over groupsData
BodyGroups(g) ==
    /\ goroutines[g].pc = "groups"
    /\ mappings' = [mappings EXCEPT
                       !.groupsMapping = BuildTables(<<>>, onceGate.data.groups).groupsMapping]
    /\ Goto(g, "done")
    /\ UNCHANGED <<syncOnce, onceGate>>

\* A faulty Once that leaves done unset when the supplier has failed, so that
\* the next caller runs the function again.
StoreOnSuccess(g) ==
    /\ goroutines[g].pc = "done"
    /\ syncOnce' = onceGate.data.ok
    /\ onceGate' = [onceGate EXCEPT !.running = FALSE, !.completed = TRUE]
    /\ Goto(g, "unlock")
    /\ UNCHANGED mappings

\* the function has returned: the deferred store of done
DoStore(g) ==
    /\ goroutines[g].pc = "done"
    /\ syncOnce' = TRUE
    /\ onceGate' = [onceGate EXCEPT !.running = FALSE, !.completed = TRUE]
    /\ Goto(g, "unlock")
    /\ UNCHANGED mappings

\* the deferred o.m.Unlock()
DoUnlock(g) ==
    /\ goroutines[g].pc = "unlock"
    /\ onceGate' = [onceGate EXCEPT !.m = 0]
    /\ Goto(g, "return")
    /\ UNCHANGED <<syncOnce, mappings>>

\* loadDataOnce has returned: a getter reads its table; New goes on to build
\* the engine, which touches none of the tables
Return(g) ==
    /\ goroutines[g].pc = "return"
    /\ goroutines' =
           [goroutines EXCEPT
               ![g].pc = "end",
               ![g].read = IF goroutines[g].fn = "New" THEN "nothing"
                           ELSE IF onceGate.running THEN "during the run"
                           ELSE IF onceGate.completed THEN "after the run"
                           ELSE "before the run"]
    /\ UNCHANGED <<syncOnce, mappings, onceGate>>
    /\ UNCHANGED <<regexCache, wappalyze, answers, lastCall, closureRun, pureCall>>

NextOnce ==
    \/ \E g \in 1..Goroutines : DoLoad(g)
    \/ \E g \in 1..Goroutines : DoLock(g)
    \/ \E g \in 1..Goroutines : BodyMake(g)
    \/ \E g \in 1..Goroutines : BodyGet(g)
    \/ \E g \in 1..Goroutines : BodyCategories(g)
    \/ \E g \in 1..Goroutines : BodyGroups(g)
    \/ \E g \in 1..Goroutines : DoStore(g)
    \/ \E g \in 1..Goroutines : DoUnlock(g)
    \/ \E g \in 1..Goroutines : Return(g)

SpecOnce == InitOnce /\ [][NextOnce]_vars

\* C9: whatever the interleaving of the first calls of New and the four
\* getters, the function given to syncOnce.Do runs at most once, and no caller
\* reads a table before that run has completed.
OnceRunsOnceBeforeReads ==
    /\ onceGate.runs <= 1
    /\ \A g \in 1..Goroutines : goroutines[g].read \in {"nothing", "after the run"}

\* getters called concurrently, each finding done unset on the fast path, have
\* all read the tables of the single run
BothGettersRead ==
    /\ onceGate.runs = 1
    /\ \A g \in 1..Goroutines :
           /\ goroutines[g].fn # "New"
           /\ goroutines[g].path = "slow"
           /\ goroutines[g].pc = "end"
           /\ goroutines[g].read = "after the run"

\* C26: the one-time load of categories and groups is never retried: once the
\* first load has completed with a failure of the supplier, no step of any
\* caller of New or of the four getters runs the function again or asks the
\* supplier again, and the four tables stay empty, whatever the supplier
\* would answer by then.
FailedLoadNeverRetried ==
    [][(onceGate.completed /\ ~onceGate.data.ok)
          => /\ onceGate'.runs = onceGate.runs
             /\ onceGate'.data = onceGate.data
             /\ mappings' = EmptyTables]_vars

\* the first load has failed and a later caller has returned over the fast
\* path, with the tables still empty
LaterCallAfterFailedLoad ==
    /\ onceGate.completed
    /\ ~onceGate.data.ok
    /\ onceGate.runs = 1
    /\ mappings = EmptyTables
    /\ \E g \in 1..Goroutines :
           /\ goroutines[g].path = "fast"
           /\ goroutines[g].pc = "end"

(***************************************************************************)
(* ExtractCookiesFromHeaders and MatchCookies on their own                 *)
(***************************************************************************)
\* the greatest number of values of one header
MaxCookieHeaders == 2

\* values of the Cookie header
CookieValues == {"a=1", "A=2; b=3", " a = 4 ;; c", "=x;session=s"}

\* values of the Set-Cookie header
SetCookieValues == {"session=abc123; Path=/", "A=5; a=6", "flag", " B =7"}

\* the lists of at most MaxCookieHeaders values
ValueLists(values) == UNION {[1..n -> values] : n \in 0..MaxCookieHeaders}

\* the headers given: an empty list stands for the header being absent
CookieHeaderMaps ==
    {[k \in {x \in {"Cookie"} : c # <<>>} \cup {x \in {"Set-Cookie"} : sc # <<>>} |->
         IF k = "Cookie" THEN c ELSE sc] :
        c \in ValueLists(CookieValues), sc \in ValueLists(SetCookieValues)}

\* the cookie patterns of a corpus whose technology Sess has cookies {"session": ".+"}
SessionPatterns ==
    [tech \in {"Sess"} |-> CHOOSE cp \in CompileKeyed([k \in {"session"} |-> ".+"]) : TRUE]

InitCookies ==
    /\ syncOnce = FALSE
    /\ mappings = EmptyTables
    /\ regexCache = <<>>
    /\ wappalyze = NoEngine
    /\ answers = <<>>
    /\ lastCall = [op |-> "none"]
    /\ closureRun = <<>>
    /\ goroutines = <<>>
    /\ onceGate = <<>>
    /\ \E h \in CookieHeaderMaps : pureCall = [fn |-> "none", headers |-> h]

\* cookies := detection.ExtractCookiesFromHeaders(headers)
ExtractCookies ==
    /\ pureCall.fn = "none"
    /\ pureCall' = [fn |-> "ExtractCookiesFromHeaders", headers |-> pureCall.headers,
                    cookies |-> ExtractCookiesFromHeaders(pureCall.headers)]
    /\ UNCHANGED <<syncOnce, mappings, regexCache, wappalyze, answers, lastCall,
                   closureRun, goroutines, onceGate>>

\* detection.MatchCookies(cookiePatterns, cookies, technologies) on an empty
\* technologies map
MatchCookiesOfSession ==
    /\ pureCall.fn = "ExtractCookiesFromHeaders"
    /\ \E matched \in MatchCookies(SessionPatterns, pureCall.cookies, <<>>) :
           pureCall' = [fn |-> "MatchCookies", headers |-> pureCall.headers,
                        cookies |-> pureCall.cookies, technologies |-> matched]
    /\ UNCHANGED <<syncOnce, mappings, regexCache, wappalyze, answers, lastCall,
                   closureRun, goroutines, onceGate>>

NextCookies == ExtractCookies \/ MatchCookiesOfSession

SpecCookies == InitCookies /\ [][NextCookies]_vars

RECURSIVE Flatten(_)
\* the concatenation of a list of lists
Flatten(lists) == IF lists = <<>> THEN <<>> ELSE Head(lists) \o Flatten(Tail(lists))

\* the <<name, value>> entry of a "name=value" text: none without "="
CookieEntry(text) ==
    LET parts == SplitN2(text, "=")
    IN  IF Len(parts) < 2 THEN <<>>
        ELSE << <<ToLower(TrimSpace(parts[1])), TrimSpace(parts[2])>> >>

\* the entries of one Cookie header value: one for each ";"-segment
CookieValueEntries(value) ==
    LET segments == Split(value, ";")
    IN  Flatten([j \in DOMAIN segments |-> CookieEntry(TrimSpace(segments[j]))])

\* the entries in the order documented: the pairs of the Cookie header,
\* then the first ";"-segment of each Set-Cookie header
CookieEntries(headers) ==
    LET cookie == IF "Cookie" \in DOMAIN headers THEN headers["Cookie"] ELSE <<>>
        setCookie == IF "Set-Cookie" \in DOMAIN headers THEN headers["Set-Cookie"] ELSE <<>>
    IN  Flatten([i \in DOMAIN cookie |-> CookieValueEntries(cookie[i])])
        \o Flatten([i \in DOMAIN setCookie |-> CookieEntry(SplitN2(setCookie[i], ";")[1])])

\* the headers of the Set-Cookie scenario
SessionHeaders == Map(<< <<"Set-Cookie", <<"session=abc123; Path=/">> >> >>)

\* C11: the cookies synthesized from the headers map each lower-cased name of
\* an entry (Cookie pairs first, then the first segment of each Set-Cookie
\* header) to the value of the last entry with that name; for
\* Set-Cookie: session=abc123; Path=/ the mapping is {session: abc123} and the
\* technology with cookie pattern session -> .+ is matched.
CookiesAreLastWins ==
    /\ pureCall.fn \in {"ExtractCookiesFromHeaders", "MatchCookies"} =>
           LET entries == CookieEntries(pureCall.headers)
           IN  /\ DOMAIN pureCall.cookies = {entries[i][1] : i \in DOMAIN entries}
               /\ \A i \in DOMAIN entries :
                      (\A j \in DOMAIN entries : j > i => entries[j][1] # entries[i][1])
                          => pureCall.cookies[entries[i][1]] = entries[i][2]
               /\ pureCall.headers = SessionHeaders =>
                      pureCall.cookies = [k \in {"session"} |-> "abc123"]
    /\ (pureCall.fn = "MatchCookies" /\ pureCall.headers = SessionHeaders) =>
           pureCall.technologies = {"Sess"}

\* a Set-Cookie entry has overwritten a Cookie pair of the same lower-cased
\* name, and the session technology was matched
SetCookieOverwroteCookie ==
    /\ pureCall.fn = "MatchCookies"
    /\ pureCall.headers = Map(<< <<"Cookie", <<"=x;session=s">> >>,
                                 <<"Set-Cookie", <<"session=abc123; Path=/">> >> >>)
    /\ pureCall.cookies = ("" :> "x" @@ "session" :> "abc123")
    /\ pureCall.technologies = {"Sess"}


(***************************************************************************)
(* internal/parser alone: ParsePattern on a raw pattern, then              *)
(* EvaluatePattern of the parsed pattern on a target, and ParsePattern of  *)
(* the parsed pattern's own text.                                          *)
(***************************************************************************)
MaxDirectives == 2

\* what stands before the first separator of a raw pattern
PatternLeads == {"foo", "", "/foo/", "fo+", "(?-i)Foo", "jq(", "version5"}

Directives == {"version:1.2", "confidence:50"}

DirectiveLists == UNION {[1..n -> Directives] : n \in 0..MaxDirectives}

RECURSIVE WithDirectives(_, _)
WithDirectives(lead, ds) ==
    IF ds = <<>> THEN lead ELSE WithDirectives(lead \o "\\;" \o Head(ds), Tail(ds))

RawPatternInputs == {WithDirectives(lead, ds) : lead \in PatternLeads, ds \in DirectiveLists}

Targets == {"foo", "a foo 3.4", "bar", "Foo v2.0"}

InitPattern ==
    /\ syncOnce = FALSE
    /\ mappings = EmptyTables
    /\ regexCache = <<>>
    /\ wappalyze = NoEngine
    /\ answers = <<>>
    /\ lastCall = [op |-> "none"]
    /\ closureRun = <<>>
    /\ goroutines = <<>>
    /\ onceGate = <<>>
    /\ \E raw \in RawPatternInputs, target \in Targets :
           pureCall = [fn |-> "none", raw |-> raw, target |-> target]

\* parsed, err := parser.ParsePattern(raw)
Parse ==
    /\ pureCall.fn = "none"
    /\ LET r == ParsePattern(pureCall.raw, regexCache)
       IN  /\ pureCall' = [fn |-> "ParsePattern", raw |-> pureCall.raw,
                           target |-> pureCall.target, ok |-> r.ok, parsed |-> r.p]
           /\ regexCache' = r.cache
    /\ UNCHANGED <<syncOnce, mappings, wappalyze, answers, lastCall,
                   closureRun, goroutines, onceGate>>

\* matched, version := parser.EvaluatePattern(parsed, target)
Evaluate ==
    /\ pureCall.fn = "ParsePattern"
    /\ pureCall.ok
    /\ LET r == EvaluatePattern(pureCall.parsed, pureCall.target, regexCache)
       IN  pureCall' = [fn |-> "EvaluatePattern", raw |-> pureCall.raw,
                        target |-> pureCall.target, parsed |-> pureCall.parsed,
                        matched |-> r.matched, version |-> r.version]
    /\ regexCache' = EvaluateCaches(pureCall.parsed, regexCache)
    /\ UNCHANGED <<syncOnce, mappings, wappalyze, answers, lastCall,
                   closureRun, goroutines, onceGate>>

\* again, err := parser.ParsePattern(parsed.Pattern)
Reparse ==
    /\ pureCall.fn = "ParsePattern"
    /\ pureCall.ok
    /\ LET r == ParsePattern(pureCall.parsed.Pattern, regexCache)
       IN  /\ pureCall' = [fn |-> "Reparse", raw |-> pureCall.raw,
                           parsed |-> pureCall.parsed, ok |-> r.ok, again |-> r.p]
           /\ regexCache' = r.cache
    /\ UNCHANGED <<syncOnce, mappings, wappalyze, answers, lastCall,
                   closureRun, goroutines, onceGate>>

NextPattern == Parse \/ Evaluate \/ Reparse

SpecPattern == InitPattern /\ [][NextPattern]_vars

\* the version directives among the segments after the first separator
VersionDirectives(raw) ==
    LET parts == Split(raw, "\\;")
    IN  {i \in 2..Len(parts) : HasPrefix(parts[i], "version:")}

\* the template of the first version directive of raw
DirectiveTemplate(raw) ==
    LET parts == Split(raw, "\\;")
        part  == parts[Least(VersionDirectives(raw))]
    IN  SubSeq(part, 9, Len(part))

\* C12: a raw pattern with a version directive after the separator parses to
\* the segment before the first separator as its text and to the directive's
\* template as its static version, and EvaluatePattern on every target that
\* this text matches returns (true, that version).
DirectiveVersionIsStatic ==
    (pureCall.fn = "EvaluatePattern" /\ VersionDirectives(pureCall.raw) # {})
        => LET text == Split(pureCall.raw, "\\;")[1]
           IN  /\ pureCall.parsed.Pattern = text
               /\ pureCall.parsed.Version = DirectiveTemplate(pureCall.raw)
               /\ MatchString(normalizePattern(text), pureCall.target)
                      => /\ pureCall.matched
                         /\ pureCall.version = DirectiveTemplate(pureCall.raw)


\* C13: parsing is idempotent on classification: when P parses, parsing the
\* pattern text of the result yields the same literal/regex flag and the same
\* case-sensitivity flag.
ClassificationIsIdempotent ==
    (pureCall.fn = "Reparse" /\ pureCall.ok)
        => /\ pureCall.again.IsLiteral = pureCall.parsed.IsLiteral
           /\ pureCall.again.IsCaseSensitive = pureCall.parsed.IsCaseSensitive


\* C28: for every parsed pattern, literal or regex, and every target,
\* EvaluatePattern returns an empty version whenever it returns matched = false.
UnmatchedHasNoVersion ==
    (pureCall.fn = "EvaluatePattern" /\ ~pureCall.matched) => pureCall.version = ""

\* the confidence directives among the segments after the first separator
ConfidenceDirectives(raw) ==
    LET parts == Split(raw, "\\;")
    IN  {i \in 2..Len(parts) : HasPrefix(parts[i], "confidence:")}

\* C21: a confidence directive overrides the pattern's confidence: a raw
\* pattern whose directive is confidence:50, and that has no version directive,
\* parses to a pattern with confidence 50 and an empty version.
ConfidenceDirectiveOverrides ==
    (/\ pureCall.fn = "ParsePattern"
     /\ pureCall.ok
     /\ ConfidenceDirectives(pureCall.raw) # {}
     /\ VersionDirectives(pureCall.raw) = {})
        => /\ pureCall.parsed.Confidence = 50
           /\ pureCall.parsed.Version = ""

(***************************************************************************)
(* internal/downloader: GetFingerprints over a cache directory, a clock    *)
(* and a network that may be down.  A file of the cache directory is       *)
(* "absent", "corrupt" (not the JSON its loader wants), or names the       *)
(* object it holds: "cached" or, written by a download, "released".        *)
(* Durations and ages are whole hours.                                     *)
(***************************************************************************)
MaxAge == 3

CacheFiles == {"technologies.json", "categories.json", "groups.json"}

FileContents == {"absent", "corrupt", "cached"}

\* the downloader.Config fields GetFingerprints reads; cmd/fingerprints-manager
\* sets CacheExpiry to the hours of --cache-ttl
DownloaderConfigs ==
    [CacheExpiry : {0, 2}, ForceDownload : BOOLEAN, DisableCache : BOOLEAN]

fileExists(files, path) == files[path] # "absent"

\* os.ReadFile then json.Unmarshal, as LoadTechnologiesFile and loadJSONFile do
loadJSONFile(files, path) ==
    IF files[path] = "absent" THEN [err |-> "failed to read file", data |-> ""]
    ELSE IF files[path] = "corrupt" THEN [err |-> "failed to parse JSON", data |-> ""]
    ELSE [err |-> "", data |-> files[path]]

\* downloadAndExtractFingerprints: Client.Get fails when the network is down,
\* otherwise the three files of the release are written now
downloadAndExtractFingerprints(disk, online) ==
    IF online
    THEN [err |-> "", disk |-> [files |-> [f \in CacheFiles |-> "released"], age |-> 0]]
    ELSE [err |-> "failed to download fingerprints", disk |-> disk]

\* needsDownload as GetFingerprints computes it; age is
\* time.Since(technologiesInfo.ModTime())
NeedsDownload(config, disk) ==
    ~(/\ ~config.DisableCache
      /\ ~config.ForceDownload
      /\ \A f \in CacheFiles : fileExists(disk.files, f)
      /\ disk.age < config.CacheExpiry)

\* GetFingerprints: [attempted, err, technologies, categories, groups, disk]
GetFingerprints(config, disk, online) ==
    LET Load(attempted, d) ==
            LET technologies == loadJSONFile(d.files, "technologies.json")
                categories   == loadJSONFile(d.files, "categories.json")
                groups       == loadJSONFile(d.files, "groups.json")
                Failed(err)  == [attempted |-> attempted, err |-> err, technologies |-> "",
                                 categories |-> "", groups |-> "", disk |-> d]
            IN  IF technologies.err # "" THEN Failed("failed to load technologies data")
                ELSE IF categories.err # "" THEN Failed("failed to load categories data")
                ELSE IF groups.err # "" THEN Failed("failed to load groups data")
                ELSE [attempted |-> attempted, err |-> "",
                      technologies |-> technologies.data, categories |-> categories.data,
                      groups |-> groups.data, disk |-> d]
        Download(got) ==
            IF got.err # ""
            THEN [attempted |-> TRUE, err |-> "failed to download fingerprints",
                  technologies |-> "", categories |-> "", groups |-> "", disk |-> got.disk]
            ELSE Load(TRUE, got.disk)
    IN  IF NeedsDownload(config, disk)
        THEN Download(downloadAndExtractFingerprints(disk, online))
        ELSE Load(FALSE, disk)

NoFetch == [attempted |-> FALSE, err |-> "", technologies |-> "", categories |-> "",
            groups |-> ""]

InitDownloader ==
    /\ syncOnce = FALSE
    /\ mappings = EmptyTables
    /\ regexCache = <<>>
    /\ wappalyze = NoEngine
    /\ answers = <<>>
    /\ lastCall = [op |-> "none"]
    /\ closureRun = <<>>
    /\ goroutines = <<>>
    /\ onceGate = <<>>
    /\ \E config \in DownloaderConfigs, files \in [CacheFiles -> FileContents],
          age \in 0..MaxAge, online \in BOOLEAN :
           pureCall = [fn |-> "none", config |-> config,
                       disk |-> [files |-> files, age |-> age], online |-> online,
                       before |-> [files |-> files, age |-> age], wasOnline |-> online,
                       fetch |-> NoFetch]

\* an hour passes
Tick ==
    /\ pureCall.disk.age < MaxAge
    /\ pureCall' = [pureCall EXCEPT !.disk.age = @ + 1]
    /\ UNCHANGED <<syncOnce, mappings, regexCache, wappalyze, answers, lastCall,
                   closureRun, goroutines, onceGate>>

\* the network goes down or comes back
NetworkChanges ==
    /\ pureCall' = [pureCall EXCEPT !.online = ~@]
    /\ UNCHANGED <<syncOnce, mappings, regexCache, wappalyze, answers, lastCall,
                   closureRun, goroutines, onceGate>>

\* technologies, categories, groups, err := downloader.GetFingerprints(config)
Fetch ==
    /\ LET r == GetFingerprints(pureCall.config, pureCall.disk, pureCall.online)
       IN  pureCall' = [fn |-> "GetFingerprints", config |-> pureCall.config,
                        disk |-> r.disk, online |-> pureCall.online,
                        before |-> pureCall.disk, wasOnline |-> pureCall.online,
                        fetch |-> [attempted |-> r.attempted, err |-> r.err,
                                   technologies |-> r.technologies,
                                   categories |-> r.categories, groups |-> r.groups]]
    /\ UNCHANGED <<syncOnce, mappings, regexCache, wappalyze, answers, lastCall,
                   closureRun, goroutines, onceGate>>

NextDownloader == Tick \/ NetworkChanges \/ Fetch

SpecDownloader == InitDownloader /\ [][NextDownloader]_vars

\* the three files were present and parseable when the last call began
CacheWasUsable == \A f \in CacheFiles : pureCall.before.files[f] \notin {"absent", "corrupt"}

\* C15: GetFingerprints works offline when cached data is available: with the
\* three files present and parseable in the cache directory it returns their
\* contents without error even when the download fails.
WorksOfflineFromCache ==
    (pureCall.fn = "GetFingerprints" /\ CacheWasUsable /\ ~pureCall.wasOnline)
        => /\ pureCall.fetch.err = ""
           /\ pureCall.fetch.technologies = pureCall.before.files["technologies.json"]
           /\ pureCall.fetch.categories = pureCall.before.files["categories.json"]
           /\ pureCall.fetch.groups = pureCall.before.files["groups.json"]

\* C16: a cache TTL of 0 means no expiry: with CacheExpiry 0, caching enabled,
\* ForceDownload false and the three files present, GetFingerprints does not
\* download, whatever the age of the files.
ZeroTTLNeverDownloads ==
    (/\ pureCall.fn = "GetFingerprints"
     /\ pureCall.config.CacheExpiry = 0
     /\ ~pureCall.config.DisableCache
     /\ ~pureCall.config.ForceDownload
     /\ \A f \in CacheFiles : fileExists(pureCall.before.files, f))
        => ~pureCall.fetch.attempted


(***************************************************************************)
(* addImpliedTechnologies step by step: the queue, one iteration at a time *)
(***************************************************************************)
\* the keys of the implies mappings and the directly matched names of these
\* runs; an implies list may also name C, which has no entry
QueueKeys == {"A", "B"}

QueueMappings == UNION {[D -> ImpliesLists] : D \in SUBSET QueueKeys}

\* A faulty membership test that never finds the implied name in the map.
NeverExists(technologies, implied) == FALSE

\* _, exists := technologies[implied]
Exists(technologies, implied) == implied \in technologies

InitQueue ==
    /\ syncOnce = FALSE
    /\ mappings = EmptyTables
    /\ regexCache = <<>>
    /\ wappalyze = NoEngine
    /\ answers = <<>>
    /\ lastCall = [op |-> "none"]
    /\ goroutines = <<>>
    /\ onceGate = <<>>
    /\ pureCall = <<>>
    /\ \E m \in QueueMappings, d \in SUBSET QueueKeys :
           closureRun = [impliesMapping |-> m, given |-> d, technologies |-> d,
                         queue |-> <<>>, enqueued |-> EmptyBag, pc |-> "range",
                         current |-> "", implies |-> <<>>, i |-> 1]

\* for tech := range technologies { queue = append(queue, tech) }
BuildQueue ==
    /\ closureRun.pc = "range"
    /\ \E order \in Orders(closureRun.technologies) :
           closureRun' = [closureRun EXCEPT !.queue = order,
                                            !.enqueued = BagOfSet(closureRun.technologies),
                                            !.pc = "loop"]
    /\ UNCHANGED <<syncOnce, mappings, regexCache, wappalyze, answers, lastCall,
                   goroutines, onceGate, pureCall>>

\* current, queue = queue[0], queue[1:]; implies, ok := w.impliesMapping[current]
Dequeue ==
    /\ closureRun.pc = "loop"
    /\ closureRun.queue # <<>>
    /\ LET head == Head(closureRun.queue)
       IN  closureRun' = [closureRun EXCEPT
                              !.current = head,
                              !.queue = Tail(closureRun.queue),
                              !.implies = IF head \in DOMAIN closureRun.impliesMapping
                                          THEN closureRun.impliesMapping[head] ELSE <<>>,
                              !.i = 1,
                              !.pc = "implied"]
    /\ UNCHANGED <<syncOnce, mappings, regexCache, wappalyze, answers, lastCall,
                   goroutines, onceGate, pureCall>>

\* one iteration of "for _, implied := range implies"
VisitImplied ==
    /\ closureRun.pc = "implied"
    /\ closureRun.i <= Len(closureRun.implies)
    /\ LET implied == closureRun.implies[closureRun.i]
       IN  closureRun' =
               IF Exists(closureRun.technologies, implied)
               THEN [closureRun EXCEPT !.i = @ + 1]
               ELSE [closureRun EXCEPT
                         !.technologies = @ \cup {implied},
                         !.queue = Append(@, implied),
                         !.enqueued = BagAdd(@, implied),
                         !.i = @ + 1]
    /\ UNCHANGED <<syncOnce, mappings, regexCache, wappalyze, answers, lastCall,
                   goroutines, onceGate, pureCall>>

\* the range over implies is exhausted: back to "for len(queue) > 0"
EndImplied ==
    /\ closureRun.pc = "implied"
    /\ closureRun.i > Len(closureRun.implies)
    /\ closureRun' = [closureRun EXCEPT !.pc = "loop"]
    /\ UNCHANGED <<syncOnce, mappings, regexCache, wappalyze, answers, lastCall,
                   goroutines, onceGate, pureCall>>

\* len(queue) == 0: the function returns
Finish ==
    /\ closureRun.pc = "loop"
    /\ closureRun.queue = <<>>
    /\ closureRun' = [closureRun EXCEPT !.pc = "done"]
    /\ UNCHANGED <<syncOnce, mappings, regexCache, wappalyze, answers, lastCall,
                   goroutines, onceGate, pureCall>>

NextQueue == BuildQueue \/ Dequeue \/ VisitImplied \/ EndImplied \/ Finish

\* the function runs on one goroutine, which keeps taking steps
SpecQueue == InitQueue /\ [][NextQueue]_vars /\ WF_vars(NextQueue)

\* C18: addImpliedTechnologies terminates for every finite implies mapping,
\* cyclic or not, and no technology name is enqueued more than once.
QueueTerminates ==
    /\ [](\A name \in DOMAIN closureRun.enqueued : closureRun.enqueued[name] <= 1)
    /\ <>(closureRun.pc = "done")

\* the run over the cycle A implies B, B implies A and C, from A alone, has
\* returned, each of the three names having been enqueued
CycleRunReturned ==
    /\ closureRun.pc = "done"
    /\ closureRun.impliesMapping = ("A" :> <<"B">> @@ "B" :> <<"A", "C">>)
    /\ closureRun.given = {"A"}
    /\ closureRun.enqueued = BagOfSet({"A", "B", "C"})


(***************************************************************************)
(* internal/parser: CompileFingerprints on its own, over corpora of two    *)
(* technologies whose patterns may fail to parse                           *)
(***************************************************************************)
MaxPatterns == 2

\* "jq(" is a regex that does not compile
PatternPool == {"foo", "jq(", "^a"}

PatternLists == UNION {[1..n -> PatternPool] : n \in 0..MaxPatterns}

\* the fields of models.Fingerprint that hold patterns
PatternFields == {"headers", "cookies", "html", "scripts", "scriptSrc", "meta", "js"}

\* the keys given to the patterns of a keyed field, in order; the first two
\* differ in letter case only
FieldKeys == <<"X-A", "x-a", "X-B">>

BlankApp == UnmarshalFingerprint(Obj(<<>>)).app

\* the app whose field holds the patterns ps
AppWith(field, ps) ==
    LET keyed == [k \in {FieldKeys[i] : i \in DOMAIN ps} |->
                     ps[CHOOSE i \in DOMAIN ps : FieldKeys[i] = k]]
    IN  CASE field = "headers"   -> [BlankApp EXCEPT !.Headers = keyed]
          [] field = "cookies"   -> [BlankApp EXCEPT !.Cookies = keyed]
          [] field = "js"        -> [BlankApp EXCEPT !.JS = keyed]
          [] field = "html"      -> [BlankApp EXCEPT !.HTML = Strs(ps)]
          [] field = "scripts"   -> [BlankApp EXCEPT !.Script = Strs(ps)]
          [] field = "scriptSrc" -> [BlankApp EXCEPT !.ScriptSrc = Strs(ps)]
          [] field = "meta"      ->
                 [BlankApp EXCEPT !.Meta =
                     IF ps = <<>> THEN EmptyMap
                     ELSE ("Generator" :> Strs(ps)) @@ ("viewport" :> JStr(ps[1]))]

InitCompile ==
    /\ syncOnce = FALSE
    /\ mappings = EmptyTables
    /\ regexCache = <<>>
    /\ wappalyze = NoEngine
    /\ answers = <<>>
    /\ lastCall = [op |-> "none"]
    /\ closureRun = <<>>
    /\ goroutines = <<>>
    /\ onceGate = <<>>
    /\ \E f1 \in PatternFields, ps1 \in PatternLists, ps2 \in PatternLists :
           pureCall = [fn |-> "none",
                       Apps |-> ("T1" :> AppWith(f1, ps1))
                                @@ ("T2" :> AppWith("headers", ps2))]

\* compiled, err := parser.CompileFingerprints(&fingerprints); the function has
\* one return statement, "return compiled, nil"
Compile ==
    /\ pureCall.fn = "none"
    /\ \E compiled \in CompileFingerprints(pureCall.Apps) :
           pureCall' = [fn |-> "CompileFingerprints", Apps |-> pureCall.Apps,
                        compiled |-> compiled, err |-> "nil"]
    /\ regexCache' = CompileCaches(pureCall.Apps, regexCache)
    /\ UNCHANGED <<syncOnce, mappings, wappalyze, answers, lastCall,
                   closureRun, goroutines, onceGate>>

\* parser.CompileFingerprints(&fingerprints) once more, on the same corpus
Recompile ==
    /\ pureCall.fn = "CompileFingerprints"
    /\ \E compiled \in CompileFingerprints(pureCall.Apps) :
           pureCall' = [fn |-> "Recompile", Apps |-> pureCall.Apps,
                        compiled |-> pureCall.compiled, again |-> compiled, err |-> "nil"]
    /\ regexCache' = CompileCaches(pureCall.Apps, regexCache)
    /\ UNCHANGED <<syncOnce, mappings, wappalyze, answers, lastCall,
                   closureRun, goroutines, onceGate>>

NextCompile == Compile \/ Recompile

SpecCompile == InitCompile /\ [][NextCompile]_vars

Parses(raw) == ParsePattern(raw, <<>>).ok

\* the parsed forms of the patterns of a list that parse, in the list's order
ParsedOfGood(list) ==
    LET good == SelectSeq(list, Parses)
    IN  [i \in DOMAIN good |-> ParsePattern(good[i], <<>>).p]

\* a compiled list holds the patterns of the raw field that parse, and no other
ListCompiled(rawField, patterns) == patterns = ParsedOfGood(extractPatternList(rawField))

\* a compiled keyed map holds, under the lower-cased key (when lower is set),
\* the parsed pattern of each key whose pattern parses, and no other entry
KeyedCompiled(m, patterns, lower) ==
    LET keyOf(k) == IF lower THEN ToLower(k) ELSE k
        good     == {k \in DOMAIN m : Parses(m[k])}
    IN  /\ DOMAIN patterns = {keyOf(k) : k \in good}
        /\ \A lk \in DOMAIN patterns :
               \E k \in good : keyOf(k) = lk /\ patterns[lk] = ParsePattern(m[k], <<>>).p

\* the compiled meta map holds, under the lower-cased key, the parsed patterns
\* of each key that has a pattern that parses
MetaCompiled(m, patterns) ==
    LET good == {k \in DOMAIN m : ParsedOfGood(extractPatternList(m[k])) # <<>>}
    IN  /\ DOMAIN patterns = {ToLower(k) : k \in good}
        /\ \A lk \in DOMAIN patterns :
               \E k \in good : /\ ToLower(k) = lk
                               /\ patterns[lk] = ParsedOfGood(extractPatternList(m[k]))

\* C20: CompileFingerprints returns no error and does not stop at a pattern
\* that fails to parse: that pattern alone is left out, every other pattern of
\* the same and of the other technologies is compiled, and the compiled set has
\* one entry for each technology.
BadPatternDroppedAlone ==
    pureCall.fn = "CompileFingerprints"
        => /\ pureCall.err = "nil"
           /\ DOMAIN pureCall.compiled = DOMAIN pureCall.Apps
           /\ \A n \in DOMAIN pureCall.Apps :
                  LET app == pureCall.Apps[n]
                      c   == pureCall.compiled[n]
                  IN  /\ KeyedCompiled(app.Headers, c.HeaderPatterns, TRUE)
                      /\ KeyedCompiled(app.Cookies, c.CookiePatterns, TRUE)
                      /\ KeyedCompiled(app.JS, c.JSPatterns, FALSE)
                      /\ ListCompiled(app.HTML, c.HTMLPatterns)
                      /\ ListCompiled(app.Script, c.ScriptPatterns)
                      /\ ListCompiled(app.ScriptSrc, c.ScriptSrcPatterns)
                      /\ MetaCompiled(app.Meta, c.MetaPatterns)

\* T1's html list began with the regex that does not compile: its second
\* pattern is compiled, and so is the header pattern of T2 that follows a
\* failing one
FailingPatternsSkipped ==
    /\ pureCall.fn = "CompileFingerprints"
    /\ pureCall.Apps["T1"].HTML = Strs(<<"jq(", "foo">>)
    /\ Len(pureCall.compiled["T1"].HTMLPatterns) = 1
    /\ pureCall.compiled["T1"].HTMLPatterns[1].Pattern = "foo"
    /\ pureCall.Apps["T2"].Headers = ("X-A" :> "jq(") @@ ("x-a" :> "^a")
    /\ pureCall.compiled["T2"].HeaderPatterns["x-a"].Pattern = "^a"


\* C24: in every compiled signature the keys of the header, cookie, meta and
\* JS pattern collections are lower-cased: none holds an upper-case letter.
CompiledKeysAreLower ==
    pureCall.fn = "CompileFingerprints"
        => \A n \in DOMAIN pureCall.compiled :
               \A k \in DOMAIN pureCall.compiled[n].HeaderPatterns
                        \cup DOMAIN pureCall.compiled[n].CookiePatterns
                        \cup DOMAIN pureCall.compiled[n].MetaPatterns
                        \cup DOMAIN pureCall.compiled[n].JSPatterns : k = ToLower(k)

\* C25: compilation is deterministic: compiling the same corpus twice yields,
\* for every technology and every channel key, the same compiled pattern, also
\* when a technology has two header, cookie or meta keys that differ only in
\* letter case.
CompilationIsDeterministic ==
    pureCall.fn = "Recompile" => pureCall.again = pureCall.compiled

(***************************************************************************)
(* internal/detection: MatchHeaders, and the cookie channel as             *)
(* detectTechnologies runs it, over header maps whose names vary in case   *)
(***************************************************************************)
MaxHeaderValues == 2

HeaderNames == {"Server", "SERVER", "Set-Cookie", "set-cookie"}

HeaderValues == {"nginx", "session=abc"}

HeaderValueLists == UNION {[1..n -> HeaderValues] : n \in 1..MaxHeaderValues}

\* the header maps: any of the names, each with a list of values
HeaderMaps == UNION {[D -> HeaderValueLists] : D \in SUBSET HeaderNames}

\* the header patterns of the technologies: Nginx by Server: nginx
ServerPatterns ==
    [tech \in {"Nginx"} |-> [k \in {"Server"} |-> ParsePattern("nginx", <<>>).p]]

InitHeaders ==
    /\ syncOnce = FALSE
    /\ mappings = EmptyTables
    /\ regexCache = <<>>
    /\ wappalyze = NoEngine
    /\ answers = <<>>
    /\ lastCall = [op |-> "none"]
    /\ closureRun = <<>>
    /\ goroutines = <<>>
    /\ onceGate = <<>>
    /\ \E h \in HeaderMaps : pureCall = [fn |-> "none", headers |-> h]

\* detection.MatchHeaders(headerPatterns, headers, technologies) on an empty
\* technologies map
HeaderChannel ==
    /\ pureCall.fn = "none"
    /\ \E matched \in MatchHeaders(ServerPatterns, pureCall.headers, <<>>) :
           pureCall' = [fn |-> "MatchHeaders", headers |-> pureCall.headers,
                        technologies |-> matched]
    /\ UNCHANGED <<syncOnce, mappings, regexCache, wappalyze, answers, lastCall,
                   closureRun, goroutines, onceGate>>

\* cookies := detection.ExtractCookiesFromHeaders(headers);
\* detection.MatchCookies(w.cookiePatterns, cookies, technologies)
CookieChannel ==
    /\ pureCall.fn = "none"
    /\ LET jar == ExtractCookiesFromHeaders(pureCall.headers)
       IN  \E matched \in MatchCookies(SessionPatterns, jar, <<>>) :
               pureCall' = [fn |-> "MatchCookies", headers |-> pureCall.headers,
                            cookies |-> jar, technologies |-> matched]
    /\ UNCHANGED <<syncOnce, mappings, regexCache, wappalyze, answers, lastCall,
                   closureRun, goroutines, onceGate>>

NextHeaders == HeaderChannel \/ CookieChannel

SpecHeaders == InitHeaders /\ [][NextHeaders]_vars

\* C22: header matching ignores the case of header names on both sides and is
\* existential over values: MatchHeaders adds a technology if and only if it
\* has a header pattern (key k, pattern p) and the response has a header whose
\* lower-cased name equals lower-cased k with at least one value that matches p.
HeaderMatchIsExistential ==
    pureCall.fn = "MatchHeaders"
        => \A tech \in DOMAIN ServerPatterns :
               tech \in pureCall.technologies
                   <=> \E k \in DOMAIN ServerPatterns[tech], h \in DOMAIN pureCall.headers :
                           /\ ToLower(h) = ToLower(k)
                           /\ \E i \in DOMAIN pureCall.headers[h] :
                                  EvaluatePattern(ServerPatterns[tech][k],
                                                  pureCall.headers[h][i], <<>>).matched


\* headers with the header named set-cookie carried under Set-Cookie instead
AsSetCookie(headers) ==
    [h \in (DOMAIN headers \ {"set-cookie"}) \cup {"Set-Cookie"} |->
        IF h = "Set-Cookie" THEN headers["set-cookie"] ELSE headers[h]]

\* C29: cookie matching does not depend on the letter case of the header
\* names: a cookie carried by a header named set-cookie is extracted and
\* matched exactly as one carried by Set-Cookie.
CookieHeaderCaseIgnored ==
    (/\ pureCall.fn = "MatchCookies"
     /\ "set-cookie" \in DOMAIN pureCall.headers
     /\ "Set-Cookie" \notin DOMAIN pureCall.headers)
        => /\ pureCall.cookies = ExtractCookiesFromHeaders(AsSetCookie(pureCall.headers))
           /\ pureCall.technologies
                  \in MatchCookies(SessionPatterns, pureCall.cookies, <<>>)
           /\ pureCall.technologies
                  \in MatchCookies(SessionPatterns,
                                   ExtractCookiesFromHeaders(AsSetCookie(pureCall.headers)),
                                   <<>>)


(***************************************************************************)
(* The inline-script channel as detectTechnologies runs it, over bodies    *)
(* with text inside and outside script blocks                              *)
(***************************************************************************)
MaxFragments == 3

BodyFragments == {"initApp() ", "<script>initApp()</script>", "<script>x</script>", "<p>"}

RECURSIVE Joined(_)
Joined(fragments) == IF fragments = <<>> THEN "" ELSE Head(fragments) \o Joined(Tail(fragments))

Bodies == {Joined(fs) : fs \in UNION {[1..n -> BodyFragments] : n \in 0..MaxFragments}}

\* the script patterns of the technologies: App by initApp
AppScriptPatterns == [tech \in {"App"} |-> CompileList(<<"initApp">>)]

InitScripts ==
    /\ syncOnce = FALSE
    /\ mappings = EmptyTables
    /\ regexCache = <<>>
    /\ wappalyze = NoEngine
    /\ answers = <<>>
    /\ lastCall = [op |-> "none"]
    /\ closureRun = <<>>
    /\ goroutines = <<>>
    /\ onceGate = <<>>
    /\ \E body \in Bodies, off \in BOOLEAN :
           pureCall = [fn |-> "none", body |-> body, DisableScriptDetection |-> off]

\* if !w.config.DisableScriptDetection { detection.MatchScripts(w.scriptPatterns,
\* body, technologies) ... } on an empty technologies map
ScriptChannel ==
    /\ pureCall.fn = "none"
    /\ pureCall' = [fn |-> "MatchScripts", body |-> pureCall.body,
                    DisableScriptDetection |-> pureCall.DisableScriptDetection,
                    technologies |-> IF ~pureCall.DisableScriptDetection
                                     THEN MatchScripts(AppScriptPatterns, pureCall.body, <<>>)
                                     ELSE {}]
    /\ UNCHANGED <<syncOnce, mappings, regexCache, wappalyze, answers, lastCall,
                   closureRun, goroutines, onceGate>>

NextScripts == ScriptChannel

SpecScripts == InitScripts /\ [][NextScripts]_vars

\* the contents of the inline-script blocks that ExtractScripts finds in body
InlineBlocks(body) ==
    {ExtractScripts(body)[j].Content : j \in DOMAIN ExtractScripts(body)} \ {""}

\* C23: on the inline-script channel a technology is matched only if one of its
\* script patterns matches the content of an extracted inline-script block;
\* text of the body outside every block produces no script-channel match.
ScriptMatchNeedsBlock ==
    pureCall.fn = "MatchScripts"
        => \A tech \in pureCall.technologies :
               \E i \in DOMAIN AppScriptPatterns[tech], block \in InlineBlocks(pureCall.body) :
                   EvaluatePattern(AppScriptPatterns[tech][i], block, <<>>).matched


(***************************************************************************)
(* CompileRegex called from several goroutines: the regexCache map has no  *)
(* lock, and a Go map access is not atomic                                 *)
(***************************************************************************)
\* the cleaned patterns handed to CompileRegex; the last does not compile
RacePatterns == {"fo+", "ba+r", "a("}

\* the cache left by an engine built earlier from the pattern "fo+"
RaceCaches == {<<>>, CompileRegex("fo+", <<>>).cache}

\* Each goroutine is in one call: New, whose ParsePattern compiles a pattern
\* of the fingerprints, or a detection call, whose EvaluatePattern asks for
\* the regex of a pattern of an engine built earlier.
InitRace ==
    /\ syncOnce = FALSE
    /\ mappings = EmptyTables
    /\ regexCache \in RaceCaches
    /\ wappalyze = NoEngine
    /\ answers = <<>>
    /\ lastCall = [op |-> "none"]
    /\ closureRun = <<>>
    /\ pureCall = <<>>
    /\ onceGate = <<>>
    /\ goroutines \in [1..Goroutines ->
                          [pc : {"call"}, fn : {"New", "Detect"}, pattern : RacePatterns,
                           compiled : {""}]]
    /\ \A g \in 1..Goroutines :
           goroutines[g].fn = "Detect" => goroutines[g].pattern \in DOMAIN regexCache

\* some other goroutine is inside the assignment regexCache[pattern] = compiled
OtherWrites(g) ==
    \E h \in 1..Goroutines : h # g /\ goroutines[h].pc = "writing"

RaceStep(g, pc) ==
    /\ goroutines' = [goroutines EXCEPT ![g].pc = pc]
    /\ UNCHANGED <<syncOnce, mappings, regexCache, wappalyze, answers, lastCall,
                   closureRun, pureCall, onceGate>>

\* regexCache[pattern] is entered
LookupBegin(g) ==
    /\ goroutines[g].pc = "call"
    /\ RaceStep(g, "lookup")

\* regexCache[pattern] has answered: on a hit CompileRegex returns
LookupEnd(g) ==
    /\ goroutines[g].pc = "lookup"
    /\ RaceStep(g, IF goroutines[g].pattern \in DOMAIN regexCache THEN "end" ELSE "compile")

\* normalizePattern and regexp.Compile, and the return on its error
RegexpCompile(g) ==
    /\ goroutines[g].pc = "compile"
    /\ LET normalizedPattern == normalizePattern(goroutines[g].pattern)
       IN  goroutines' =
               [goroutines EXCEPT
                   ![g].pc = IF RegexCompiles(normalizedPattern) THEN "insert" ELSE "end",
                   ![g].compiled = IF RegexCompiles(normalizedPattern)
                                   THEN normalizedPattern ELSE ""]
    /\ UNCHANGED <<syncOnce, mappings, regexCache, wappalyze, answers, lastCall,
                   closureRun, pureCall, onceGate>>

\* regexCache[pattern] = compiled is entered
InsertBegin(g) ==
    /\ goroutines[g].pc = "insert"
    /\ RaceStep(g, "writing")

\* regexCache[pattern] = compiled is done
InsertEnd(g) ==
    /\ goroutines[g].pc = "writing"
    /\ regexCache' = (goroutines[g].pattern :> goroutines[g].compiled) @@ regexCache
    /\ goroutines' = [goroutines EXCEPT ![g].pc = "end"]
    /\ UNCHANGED <<syncOnce, mappings, wappalyze, answers, lastCall, closureRun,
                   pureCall, onceGate>>

\* An access entered while another goroutine writes the map is a data race:
\* the runtime may notice it and end the process ("concurrent map read and
\* map write", "concurrent map writes"), or the access may go on (LookupBegin,
\* InsertBegin).
Throw(g) ==
    /\ goroutines[g].pc \in {"call", "insert"}
    /\ OtherWrites(g)
    /\ goroutines' = [h \in 1..Goroutines |-> [goroutines[h] EXCEPT !.pc = "fatal"]]
    /\ UNCHANGED <<syncOnce, mappings, regexCache, wappalyze, answers, lastCall,
                   closureRun, pureCall, onceGate>>

NextRace ==
    \/ \E g \in 1..Goroutines : LookupBegin(g)
    \/ \E g \in 1..Goroutines : LookupEnd(g)
    \/ \E g \in 1..Goroutines : RegexpCompile(g)
    \/ \E g \in 1..Goroutines : InsertBegin(g)
    \/ \E g \in 1..Goroutines : InsertEnd(g)
    \/ \E g \in 1..Goroutines : Throw(g)

SpecRace == InitRace /\ [][NextRace]_vars

\* C27: whatever the interleaving of New and detection calls in different
\* goroutines, no insertion into regexCache by CompileRegex overlaps a lookup
\* or another insertion.
CacheAccessNeverOverlaps ==
    \A g \in 1..Goroutines :
        goroutines[g].pc = "writing"
            => \A h \in 1..Goroutines \ {g} : goroutines[h].pc \notin {"lookup", "writing"}

====
